---- MODULE Spec2Model ----
(***************************************************************************)
(* Verification model of the dmv prototype: a content-addressed object     *)
(* store (DiskRepository, Repo), the per-directory stat cache (HashCache,   *)
(* HashCacheFile, AllCaches) and the transfer engines FsTransfer and        *)
(* ObjectFsTransfer (hash_file, store_file, hash_partial_tree, hash_path,   *)
(* commit, extract_object).                                                 *)
(*                                                                         *)
(* The parts share one state:                                              *)
(*   SpecDisk      Repo::store_object on a DiskRepository, byte by byte    *)
(*   SpecCache     sessions of a HashCacheFile: open, insert, flush, drop  *)
(*   SpecCheck     HashCache::check on any cache map, name and stats       *)
(*   SpecHashFile  hash_file and store_file on one file that other programs*)
(*                 may write between operations                            *)
(*   SpecIngest    hash_file, hash_partial_tree and commit on a work       *)
(*                 directory, one store_object call at a time              *)
(*   SpecRuns      hash_file, AllCaches::check and AllCaches::flush over   *)
(*                 cache files on disk, with stops that lose the memory    *)
(*   SpecTransfer  ingest of a directory, extract of the result onto a     *)
(*                 path, and ingest of that path, for both engines         *)
(*   SpecExtractFile  extract of a Blob or ChunkedBlob onto a path that is *)
(*                 absent, a file or a directory, for both engines         *)
(*   SpecCommits   WorkDir::commit, repeated, on a work directory that     *)
(*                 holds its object store                                  *)
(*   SpecStatus    FsObjComparePlanBuilder on any node of the dual walk    *)
(*   SpecTree      Tree::insert in any order, then write_content           *)
(*   SpecObjects   write_to and read of a Blob or Tree with any names      *)
(*   SpecHashPath  hash_path on directories with nothing to hash           *)
(*   SpecCopy      copy_blob_content on stores that may lack chunks        *)
(*   SpecSharedCache  hash_file and hash_path with cache files written by  *)
(*                 an engine on this or another repository                 *)
(*   SpecCoherence extracts onto a path and hash_file of it, on a store    *)
(*                 that may lack a chunk                                   *)
(*   SpecFlush     hash_file, extract, then the drop of the stat caches    *)
(*   SpecRace      hash_file while another program writes the file         *)
(*   SpecPartial   PartialTree::insert and the completion of a PartialTree *)
(*                                                                         *)
(* Bytes are modelled as small naturals and files as sequences of them.    *)
(* An absent file is the marker NoFile.  File names in the file trees are  *)
(* valid UTF-8 (the walker rejects others, file_store.rs:120-123).  In the *)
(* disk part an object key is a number computed from the bytes written     *)
(* (HashBytes); in the ingest parts it is the object itself wrapped as a   *)
(* key (ObjectHash).  Both are collision-free, as the digest is taken to be.*)
(***************************************************************************)
EXTENDS Integers, Sequences, FiniteSets, TLC

\* ------------------------------------------------------------------ bounds
MaxContentLen == 2      \* longest Blob content / file, in bytes
MaxStores == 3          \* store_object calls started in one run of the disk model

Byte == {0, 1}
NoFile == <<-1>>

Contents == UNION {[1..n -> Byte] : n \in 0..MaxContentLen}

IsPrefix(s, t) == Len(s) <= Len(t) /\ SubSeq(t, 1, Len(s)) = s

\* ------------------------------------------------ DAG wire format (blobs)
ObjectTypeBlob == 1

\* Blob::write_to: header (object_type, content_size) followed by the content
SerializeBlob(content) == <<ObjectTypeBlob, Len(content)>> \o content

\* HashWriter: the key is a collision-free function of the bytes written.
\* Modelled as an injective positional code; 0 is the reserved zero hash.
HashBase == MaxContentLen + 3
RECURSIVE HashBytes(_)
HashBytes(bytes) ==
    IF bytes = <<>> THEN 1
    ELSE (Head(bytes) + 1) + HashBase * HashBytes(Tail(bytes))

\* ------------------------------------------------ DiskRepository and Repo
VARIABLES tmp_file,       \* content of <repo>/tmp, or NoFile
          object_files,   \* key -> content of objects/<path(key)>
          object_dirs,    \* parent directories that exist under objects/
          incoming,       \* the open DiskIncoming: position of its file handle
          pc,             \* where Repo::store_object stands
          cur_obj,        \* content of the Blob being stored
          stores,         \* store_object calls started so far
          files_at_start, \* object_files when the running store_object began
          returned        \* key returned by the store_object that ended last, or 0

diskVars == <<tmp_file, object_files, object_dirs, incoming, pc, cur_obj,
              stores, files_at_start, returned>>

\* DiskRepository::object_path: objects/<hh>/<hh>/<rest>; the parent directory
\* is named by the leading part of the key.
ObjectDir(key) == key % HashBase

\* fs::File::write at the handle's position: overwrites, and extends at the end
WriteAt(file, pos, b) ==
    IF pos < Len(file) THEN [file EXCEPT ![pos + 1] = b] ELSE Append(file, b)

\* OpenOptions::new().write(true).create(true).open(tmp): an existing file is
\* opened as it is (no truncate), an absent one is created empty.
OpenTemp(existing) == IF existing = NoFile THEN <<>> ELSE existing

\* obj.write_to(&mut incoming) has returned: all bytes of the object are written
WriteDoneEarly == incoming >= 1
WriteDone == incoming = Len(SerializeBlob(cur_obj))

\* Repo::store_object, line 91: objectstore.new_object() / add_object()
AddObject(content) ==
    /\ pc = "idle"
    /\ stores < MaxStores
    /\ tmp_file' = OpenTemp(tmp_file)
    /\ incoming' = 0
    /\ cur_obj' = content
    /\ stores' = stores + 1
    /\ files_at_start' = object_files
    /\ returned' = 0
    /\ pc' = "write"
    /\ UNCHANGED <<object_files, object_dirs>>

\* Repo::store_object, line 92: one write of obj.write_to through DiskIncoming
WriteByte ==
    /\ pc = "write"
    /\ ~WriteDone
    /\ tmp_file' = WriteAt(tmp_file, incoming, SerializeBlob(cur_obj)[incoming + 1])
    /\ incoming' = incoming + 1
    /\ UNCHANGED <<object_files, object_dirs, pc, cur_obj, stores, files_at_start, returned>>

\* DiskIncoming::set_key, lines 70-74: flush, then create the parent directories
SetKeyCreateDirs ==
    /\ pc = "write"
    /\ WriteDone
    /\ object_dirs' = object_dirs \cup {ObjectDir(HashBytes(SerializeBlob(cur_obj)))}
    /\ pc' = "rename"
    /\ UNCHANGED <<tmp_file, object_files, incoming, cur_obj, stores, files_at_start, returned>>

\* DiskIncoming::set_key, line 75: fs::rename(tmp, permpath) replaces the target
SetKeyRename ==
    /\ pc = "rename"
    /\ LET key == HashBytes(SerializeBlob(cur_obj)) IN
         object_files' = [k \in DOMAIN object_files \cup {key} |->
                             IF k = key THEN tmp_file ELSE object_files[k]]
    /\ tmp_file' = NoFile
    /\ returned' = HashBytes(SerializeBlob(cur_obj))
    /\ pc' = "idle"
    /\ UNCHANGED <<object_dirs, incoming, cur_obj, stores, files_at_start>>

\* The store is abandoned before the rename: an error return of write_to or
\* set_key (try!), or the process stops.  The DiskIncoming is dropped and the
\* temp file stays as it is.
Abandon ==
    /\ pc \in {"write", "rename"}
    /\ pc' = "idle"
    /\ UNCHANGED <<tmp_file, object_files, object_dirs, incoming, cur_obj, stores,
                   files_at_start, returned>>

\* ------------------------------------------------------------ stat cache
MaxMtime == 1           \* modification times are 0..MaxMtime

FileNames == {"a", "b"}
StatSizes == {0, 1}
CacheKeys == {[sha |-> [type |-> "Blob", content |-> <<>>]],
              [sha |-> [type |-> "Blob", content |-> <<0>>]]}
\* the ObjectKey of a result or record that carries none
NoKey == [sha |-> [type |-> "Zero"]]

\* FileStats { size, mtime }
FileStatsSet == [size : StatSizes, mtime : 0..MaxMtime]
\* CacheEntry { filestats, hash }
CacheEntries == [filestats : FileStatsSet, hash : CacheKeys]
NoEntry == [filestats |-> [size |-> -1, mtime |-> -1], hash |-> NoKey]
\* CacheMap: file name -> CacheEntry; NoEntry marks a name the map does not hold
CacheMaps == [FileNames -> CacheEntries \cup {NoEntry}]
EmptyCache == [n \in FileNames |-> NoEntry]

\* #[derive(PartialEq)] on FileStats: size and mtime both take part
FileStatsEqSizeOnly(a, b) == a.size = b.size
FileStatsEq(a, b) == a.size = b.size /\ a.mtime = b.mtime

\* HashCache::check
HashCacheCheckIgnoreStats(cache, file_name, file_stats) ==
    IF cache[file_name] # NoEntry
    THEN [status |-> "Cached", hash |-> cache[file_name].hash, size |-> -1]
    ELSE [status |-> "NotCached", hash |-> NoKey, size |-> file_stats.size]
HashCacheCheck(cache, file_name, file_stats) ==
    IF cache[file_name] # NoEntry
    THEN IF FileStatsEq(cache[file_name].filestats, file_stats)
         THEN [status |-> "Cached", hash |-> cache[file_name].hash, size |-> -1]
         ELSE [status |-> "Modified", hash |-> NoKey, size |-> file_stats.size]
    ELSE [status |-> "NotCached", hash |-> NoKey, size |-> file_stats.size]

\* HashCache::insert_entry: upsert
InsertEntryMap(cache, file_name, file_stats, hash) ==
    [cache EXCEPT ![file_name] = [filestats |-> file_stats, hash |-> hash]]

\* HashCache::calculate_hash: a digest of every (name, entry) pair of the map,
\* collision-free in the model
CalculateHashNamesOnly(cache) == {n \in FileNames : cache[n] # NoEntry}
CalculateHash(cache) ==
    {<<n, cache[n].filestats.size, cache[n].filestats.mtime, cache[n].hash>> :
        n \in {m \in FileNames : cache[m] # NoEntry}}

\* json::as_pretty_json(&self.cache.0): one record per entry of the map
NameOrder == <<"a", "b">>
RECURSIVE JsonEncodeFrom(_, _)
JsonEncodeFrom(cache, i) ==
    IF i > Len(NameOrder) THEN <<>>
    ELSE LET n == NameOrder[i] IN
         (IF cache[n] = NoEntry THEN <<>>
          ELSE <<[name |-> n, size |-> cache[n].filestats.size,
                  mtime |-> cache[n].filestats.mtime, hash |-> cache[n].hash]>>)
         \o JsonEncodeFrom(cache, i + 1)
JsonEncode(cache) == JsonEncodeFrom(cache, 1)

\* json::decode(&json_str): the map holding the records of the file
RECURSIVE JsonDecode(_)
JsonDecode(json) ==
    IF json = <<>> THEN EmptyCache
    ELSE LET r == json[Len(json)] IN
         [JsonDecode(SubSeq(json, 1, Len(json) - 1)) EXCEPT
            ![r.name] = [filestats |-> [size |-> r.size, mtime |-> r.mtime],
                         hash |-> r.hash]]

\* marker for a cache file that does not exist
NoCacheFile == <<[name |-> "", size |-> -1, mtime |-> -1, hash |-> NoKey]>>

VARIABLES cache_file,        \* content of the cache file (JSON records), or NoCacheFile
          hc_open,           \* a HashCacheFile is alive
          hc_cache,          \* HashCacheFile.cache
          hc_on_disk_state,  \* HashCacheFile.on_disk_state
          latest,            \* per name, the entry of the latest insert_entry
          writes             \* number of times flush has written the file

cacheVars == <<cache_file, hc_open, hc_cache, hc_on_disk_state, latest, writes>>

MaxWrites == 2         \* flush writes counted (the counter saturates)

\* HashCacheFile::open
HashCacheFileOpen ==
    /\ ~hc_open
    /\ LET cache_map == IF cache_file # NoCacheFile THEN JsonDecode(cache_file)
                        ELSE EmptyCache IN
         /\ hc_cache' = cache_map
         /\ hc_on_disk_state' = CalculateHash(cache_map)
    /\ hc_open' = TRUE
    /\ UNCHANGED <<cache_file, latest, writes>>

\* HashCache::insert_entry through the open HashCacheFile (DerefMut)
InsertEntry(file_name, file_stats, hash) ==
    /\ hc_open
    /\ hc_cache' = InsertEntryMap(hc_cache, file_name, file_stats, hash)
    /\ latest' = [latest EXCEPT ![file_name] = [filestats |-> file_stats, hash |-> hash]]
    /\ UNCHANGED <<cache_file, hc_open, hc_on_disk_state, writes>>

\* HashCacheFile::flush: the effect on (cache_file, on_disk_state, writes)
FlushEffectAlwaysWrites ==
    /\ cache_file' = JsonEncode(hc_cache)
    /\ hc_on_disk_state' = CalculateHash(hc_cache)
    /\ writes' = IF writes < MaxWrites THEN writes + 1 ELSE writes
FlushEffect ==
    LET cur_state == CalculateHash(hc_cache) IN
    IF cur_state = hc_on_disk_state
    THEN UNCHANGED <<cache_file, hc_on_disk_state, writes>>
    ELSE /\ cache_file' = JsonEncode(hc_cache)
         /\ hc_on_disk_state' = cur_state
         /\ writes' = IF writes < MaxWrites THEN writes + 1 ELSE writes

HashCacheFileFlush ==
    /\ hc_open
    /\ FlushEffect
    /\ UNCHANGED <<hc_open, hc_cache, latest>>

\* Drop for HashCacheFile: flush, then the value is gone
HashCacheFileDrop ==
    /\ hc_open
    /\ FlushEffect
    /\ hc_open' = FALSE
    /\ UNCHANGED <<hc_cache, latest>>

\* --------------------------------------------- HashCache::check as a function
VARIABLES chk_cache, chk_name, chk_stats, chk_result

checkVars == <<chk_cache, chk_name, chk_stats, chk_result>>

NoResult == [status |-> "none", hash |-> NoKey, size |-> -1]

\* AllCaches::check_with on a loaded directory cache: dir_cache.check(name, stats)
CheckWith ==
    /\ chk_result = NoResult
    /\ chk_result' = HashCacheCheck(chk_cache, chk_name, chk_stats)
    /\ UNCHANGED <<chk_cache, chk_name, chk_stats>>

\* ------------------------------------------------------------- DAG objects
\* ObjectKey of an object: the digest its write_to computes over the serialized
\* object, collision-free in the model.  ZeroHash is ObjectKey::zero().
ZeroHash == NoKey
ObjectHash(obj) == [sha |-> obj]

Blob(content) == [type |-> "Blob", content |-> content]
\* Blob::size
BlobSize(blob) == Len(blob.content)

\* ChunkedBlob::new and ChunkedBlob::add_chunk(size, hash): the new chunk
\* starts where the chunks so far end
NewChunkedBlob == [type |-> "ChunkedBlob", total_size |-> 0, chunks |-> <<>>]
AddChunk(cb, size, hash) ==
    [type |-> "ChunkedBlob",
     total_size |-> cb.total_size + size,
     chunks |-> Append(cb.chunks,
                       [offset |-> cb.total_size, size |-> size, hash |-> hash])]

\* Tree::new and Tree::insert (a map from name to hash)
NewTree == [type |-> "Tree", entries |-> {}]
TreeInsert(tree, name, hash) ==
    [type |-> "Tree",
     entries |-> {e \in tree.entries : e.name # name}
                   \cup {[name |-> name, hash |-> hash]}]

\* Commit { tree, parents, message }
Commit(tree, parents, message) ==
    [type |-> "Commit", tree |-> tree, parents |-> parents, message |-> message]

\* the child objects a stored object refers to: the chunks of a ChunkedBlob,
\* the entries of a Tree, the tree of a Commit
ChildRefs(obj) ==
    IF obj.type = "ChunkedBlob" THEN {obj.chunks[i].hash : i \in DOMAIN obj.chunks}
    ELSE IF obj.type = "Tree" THEN {e.hash : e \in obj.entries}
    ELSE IF obj.type = "Commit" THEN {obj.tree}
    ELSE {}

\* ----------------------------------------------------------------- chunker
\* ChunkReader: cuts the bytes of a file into consecutive non-empty chunks at
\* positions that depend on the content only.  In the model a chunk ends after
\* a byte of value 1 and at the end of the file.
RECURSIVE FirstCut(_, _)
FirstCut(bytes, i) ==
    IF i >= Len(bytes) \/ bytes[i] = 1 THEN i ELSE FirstCut(bytes, i + 1)

RECURSIVE ChunkBytes(_)
ChunkBytes(bytes) ==
    IF bytes = <<>> THEN <<>>
    ELSE LET cut == FirstCut(bytes, 1) IN
         <<SubSeq(bytes, 1, cut)>> \o ChunkBytes(SubSeq(bytes, cut + 1, Len(bytes)))

\* Repo::store_file, lines 122-126: the ChunkedBlob built from the stored Blobs
RECURSIVE ChunkedFromBlobsWrongSize(_)
ChunkedFromBlobsWrongSize(blobs) ==
    IF blobs = <<>> THEN NewChunkedBlob
    ELSE LET blob == blobs[Len(blobs)] IN
         AddChunk(ChunkedFromBlobsWrongSize(SubSeq(blobs, 1, Len(blobs) - 1)),
                  BlobSize(blob) + 1, ObjectHash(blob))
RECURSIVE ChunkedFromBlobs(_)
ChunkedFromBlobs(blobs) ==
    IF blobs = <<>> THEN NewChunkedBlob
    ELSE LET blob == blobs[Len(blobs)] IN
         AddChunk(ChunkedFromBlobs(SubSeq(blobs, 1, Len(blobs) - 1)),
                  BlobSize(blob), ObjectHash(blob))

\* Repo::store_file: the objects it stores for a file of these bytes, in order
StoreFileObjects(bytes) ==
    LET chunks == ChunkBytes(bytes) IN
    IF Len(chunks) = 0 THEN <<Blob(<<>>)>>
    ELSE IF Len(chunks) = 1 THEN <<Blob(chunks[1])>>
    ELSE LET blobs == [i \in 1..Len(chunks) |-> Blob(chunks[i])] IN
         blobs \o <<ChunkedFromBlobs(blobs)>>

\* rollinghash::read_file_objects: the objects of a file, in order: the one
\* Blob of an empty or single-chunk file, else every chunk's Blob followed by
\* the ChunkedBlob that lists them
ReadFileObjectsIndexFirst(bytes) ==
    LET chunks == ChunkBytes(bytes) IN
    IF Len(chunks) <= 1 THEN <<Blob(bytes)>>
    ELSE LET blobs == [i \in 1..Len(chunks) |-> Blob(chunks[i])] IN
         <<ChunkedFromBlobs(blobs)>> \o blobs
ReadFileObjects(bytes) ==
    LET chunks == ChunkBytes(bytes) IN
    IF Len(chunks) <= 1 THEN <<Blob(bytes)>>
    ELSE LET blobs == [i \in 1..Len(chunks) |-> Blob(chunks[i])] IN
         blobs \o <<ChunkedFromBlobs(blobs)>>

\* ------------------------------------------------ hashing files and trees
\* one state-changing call of a running operation
StoreStep(obj) == [step |-> "store", obj |-> obj]
CacheStep(name, stats, hash) ==
    [step |-> "cache", name |-> name, stats |-> stats, hash |-> hash]
StoreSteps(objs) == [i \in 1..Len(objs) |-> StoreStep(objs[i])]

\* hash_file: last_hash starts as the zero key and takes the key of every
\* object stored
FirstHash(objs) == IF objs = <<>> THEN ZeroHash ELSE ObjectHash(objs[1])
LastHash(objs) == IF objs = <<>> THEN ZeroHash ELSE ObjectHash(objs[Len(objs)])

\* FileStats::from(metadata)
StatsOf(file) == [size |-> Len(file.content), mtime |-> file.mtime]

\* CacheStep applied to the in-memory caches (AllCaches::insert)
RECURSIVE ApplyCacheSteps(_, _)
ApplyCacheSteps(cache, steps) ==
    IF steps = <<>> THEN cache
    ELSE LET s == Head(steps)
             c == IF s.step = "cache"
                  THEN InsertEntryMap(cache, s.name, s.stats, s.hash) ELSE cache
         IN ApplyCacheSteps(c, Tail(steps))

\* hash_file without the cache insert
HashFileRunNoInsert(cache, name, file) ==
    LET status == HashCacheCheck(cache, name, StatsOf(file))
        objs == ReadFileObjects(file.content) IN
    IF status.status = "Cached"
    THEN [steps |-> <<>>, some |-> TRUE, hash |-> status.hash, cache |-> cache]
    ELSE [steps |-> StoreSteps(objs), some |-> TRUE, hash |-> LastHash(objs),
          cache |-> cache]

\* ObjectFsTransfer::hash_file and FileStore::hash_file: the calls it makes and
\* the key it returns
HashFileRun(cache, name, file) ==
    LET stats == StatsOf(file)
        status == HashCacheCheck(cache, name, stats)
        objs == ReadFileObjects(file.content)
        steps == StoreSteps(objs) \o <<CacheStep(name, stats, LastHash(objs))>> IN
    IF status.status = "Cached"
    THEN [steps |-> <<>>, some |-> TRUE, hash |-> status.hash, cache |-> cache]
    ELSE [steps |-> steps, some |-> TRUE, hash |-> LastHash(objs),
          cache |-> ApplyCacheSteps(cache, steps)]

\* The working directory: the root holds file "a" and directory "d", which
\* holds file "b".  Names in ascending order, as BTreeMap iterates them.
RootDir == "wd"
DirEntries(dir) == IF dir = "wd" THEN {"a", "d"} ELSE IF dir = "d" THEN {"b"} ELSE {}
IsDirName(n) == n \in {"wd", "d"}
NameSeq == <<"a", "b", "d">>

\* From<CacheStatus> for HashedOrNot
FromCacheStatus(s) ==
    IF s.status = "Cached" THEN [kind |-> "Hashed", hash |-> s.hash]
    ELSE [kind |-> "UnhashedFile", size |-> s.size]

\* ObjectFsTransfer::dir_to_partial_tree: a PartialTree maps each child name to
\* Hashed(hash), UnhashedFile(size) or Dir(partial); empty subdirectories are
\* left out
RECURSIVE DirToPartialTree(_, _, _)
DirToPartialTree(cache, files, dir) ==
    LET sub(n) == DirToPartialTree(cache, files, n)
        kept == {n \in DirEntries(dir) : IsDirName(n) => DOMAIN sub(n) # {}} IN
    [n \in kept |->
        IF IsDirName(n) THEN [kind |-> "Dir", partial |-> sub(n)]
        ELSE FromCacheStatus(HashCacheCheck(cache, n, StatsOf(files[n])))]

\* PartialTree::tree: the Tree of the children whose hash is known
RECURSIVE TreeFrom(_, _)
TreeFrom(partial, i) ==
    IF i > Len(NameSeq) THEN NewTree
    ELSE LET n == NameSeq[i]
             rest == TreeFrom(partial, i + 1) IN
         IF n \in DOMAIN partial /\ partial[n].kind = "Hashed"
         THEN TreeInsert(rest, n, partial[n].hash) ELSE rest
PartialTreeTree(partial) == TreeFrom(partial, 1)

\* the hashes a PartialTree took from the cache
RECURSIVE PartialCached(_)
PartialCached(partial) ==
    UNION {IF partial[n].kind = "Hashed" THEN {partial[n].hash}
           ELSE IF partial[n].kind = "Dir" THEN PartialCached(partial[n].partial)
           ELSE {} : n \in DOMAIN partial}

\* ObjectFsTransfer::hash_partial_tree: every unhashed child in name order (a
\* file through hash_file, a directory through the recursion), then the Tree
RECURSIVE HashPartialTreeRun(_, _, _)
RECURSIVE HashUnhashedFrom(_, _, _, _)
HashUnhashedFrom(files, unhashed, i, acc) ==
    IF i > Len(NameSeq) THEN acc
    ELSE LET ch_name == NameSeq[i] IN
         IF ch_name \notin DOMAIN unhashed \/ unhashed[ch_name].kind = "Hashed"
         THEN HashUnhashedFrom(files, unhashed, i + 1, acc)
         ELSE LET run == IF unhashed[ch_name].kind = "UnhashedFile"
                         THEN HashFileRun(acc.cache, ch_name, files[ch_name])
                         ELSE HashPartialTreeRun(acc.cache, files,
                                                 unhashed[ch_name].partial)
              IN HashUnhashedFrom(files, unhashed, i + 1,
                    [steps |-> acc.steps \o run.steps,
                     partial |-> [acc.partial EXCEPT
                                    ![ch_name] = [kind |-> "Hashed", hash |-> run.hash]],
                     cache |-> run.cache])
\* hash_partial_tree storing the Tree before it hashes the children
HashPartialTreeRunTreeFirst(cache, files, partial) ==
    LET acc == HashUnhashedFrom(files, partial, 1,
                   [steps |-> <<>>, partial |-> partial, cache |-> cache])
        tree == PartialTreeTree(acc.partial) IN
    [steps |-> <<StoreStep(tree)>> \o acc.steps, some |-> TRUE,
     hash |-> ObjectHash(tree), cache |-> acc.cache]
HashPartialTreeRun(cache, files, partial) ==
    LET acc == HashUnhashedFrom(files, partial, 1,
                   [steps |-> <<>>, partial |-> partial, cache |-> cache])
        tree == PartialTreeTree(acc.partial) IN
    [steps |-> acc.steps \o <<StoreStep(tree)>>, some |-> TRUE,
     hash |-> ObjectHash(tree), cache |-> acc.cache]

\* walk_handle with FsOnlyPlanBuilder: the HashPlan of a path.  A node carries
\* the hash the cache knows for it (hashed/hash), and its children by name.
RECURSIVE BuildHashPlan(_, _, _)
BuildHashPlan(cache, files, n) ==
    IF IsDirName(n)
    THEN [is_dir |-> TRUE, hashed |-> FALSE, hash |-> ZeroHash,
          children |-> [c \in DirEntries(n) |-> BuildHashPlan(cache, files, c)]]
    ELSE LET status == HashCacheCheck(cache, n, StatsOf(files[n])) IN
         [is_dir |-> FALSE, hashed |-> status.status = "Cached",
          hash |-> status.hash, children |-> <<>>]

\* the hashes a HashPlan took from the cache
RECURSIVE PlanCached(_)
PlanCached(node) ==
    IF node.is_dir THEN UNION {PlanCached(node.children[c]) : c \in DOMAIN node.children}
    ELSE IF node.hashed THEN {node.hash} ELSE {}

\* HashPlan::walk with HashAndStoreOp: no_descend for a file (its known hash, or
\* hash_file), post_descend for a directory after its children, in name order.
\* Every node of the work directory is included (none is ignored).
RECURSIVE HashAndStoreRun(_, _, _, _)
RECURSIVE HashAndStoreChildren(_, _, _, _)
HashAndStoreChildren(files, node, i, acc) ==
    IF i > Len(NameSeq) THEN acc
    ELSE LET name == NameSeq[i] IN
         IF name \notin DOMAIN node.children
         THEN HashAndStoreChildren(files, node, i + 1, acc)
         ELSE LET run == HashAndStoreRun(acc.cache, files, name, node.children[name])
              IN HashAndStoreChildren(files, node, i + 1,
                    [steps |-> acc.steps \o run.steps,
                     tree |-> IF run.some THEN TreeInsert(acc.tree, name, run.hash)
                              ELSE acc.tree,
                     cache |-> run.cache])
HashAndStoreRun(cache, files, name, node) ==
    IF ~node.is_dir
    THEN IF node.hashed
         THEN [steps |-> <<>>, some |-> TRUE, hash |-> node.hash, cache |-> cache]
         ELSE HashFileRun(cache, name, files[name])
    ELSE LET acc == HashAndStoreChildren(files, node, 1,
                        [steps |-> <<>>, tree |-> NewTree, cache |-> cache]) IN
         IF acc.tree.entries = {}
         THEN [steps |-> acc.steps, some |-> FALSE, hash |-> ZeroHash, cache |-> acc.cache]
         ELSE [steps |-> acc.steps \o <<StoreStep(acc.tree)>>, some |-> TRUE,
               hash |-> ObjectHash(acc.tree), cache |-> acc.cache]

\* FsTransfer::hash_path
HashPathRun(cache, files, path) ==
    HashAndStoreRun(cache, files, path, BuildHashPlan(cache, files, path))

\* ------------------------------------- ingest operations on a work directory
MaxCommits == 2         \* commits started in one run
MaxModifies == 1        \* writes to work-directory files by other programs

\* the contents a work-directory file takes: empty, one chunk (two of the same
\* size), two chunks, and three chunks of which two are equal
FileContents == {<<>>, <<0>>, <<1>>, <<0, 1, 0>>, <<1, 1, 0>>}

VARIABLES fs_files,        \* file name -> [content, mtime] of the work-directory file
          store,           \* the objects held by the object store
          all_caches,      \* AllCaches: per file, the entry of its directory's cache
          op,              \* the running operation (kind "none" when idle)
          plan,            \* the calls the running operation has still to make
          op_log,          \* the objects the latest operation stored, in order
          op_cached,       \* the hashes the latest operation took from the cache
          wd_parents,      \* WorkDirState.parents
          branch_ref,      \* the hash the current branch's ref names
          wd_state_file,   \* the work-dir state file
          modified_since,  \* per file: written since its cache entry was inserted
          commits,         \* commits started so far
          modifies,        \* writes to files so far
          wd_branch,       \* WorkDirState.branch: a branch name, or NoBranch (None)
          commit_log       \* the Commit objects stored so far, in order


\* The stat caches on disk.  AllCaches keeps one HashCacheFile per directory,
\* opened when a file of the directory is first checked or inserted.
VARIABLES dir_cache_files,    \* directory -> content of its cache file
          dir_loaded,         \* directory -> AllCaches.directory_caches holds it
          dir_on_disk_state,  \* directory -> on_disk_state of its HashCacheFile
          ac_result,          \* outcome of the latest AllCaches call that was reported
          interrupted         \* file -> root hash of a hash_file whose cache entry
                              \* was lost when the process stopped, or ZeroHash

acVars == <<dir_cache_files, dir_loaded, dir_on_disk_state, ac_result, interrupted>>

Dirs == {"wd", "d"}
\* file_path.parent_or_err()
DirOf(n) == IF n = "a" THEN "wd" ELSE "d"

\* a cache file holding text that is not JSON of a cache map, and one whose
\* bytes are not UTF-8 text
BadJson == <<[name |-> "{", size |-> -2, mtime |-> -2, hash |-> NoKey]>>
NotUtf8 == <<[name |-> "0xFF", size |-> -3, mtime |-> -3, hash |-> NoKey]>>

\* HashCacheFile::open: how opening a cache file of this content ends
OpenOutcomeAbsentFails(file) ==
    IF file = NoCacheFile \/ file = NotUtf8 THEN "IoError"
    ELSE IF file = BadJson THEN "CorruptCacheFile"
    ELSE "Ok"
OpenOutcome(file) ==
    IF file = NoCacheFile THEN "Ok"
    ELSE IF file = NotUtf8 THEN "IoError"
    ELSE IF file = BadJson THEN "CorruptCacheFile"
    ELSE "Ok"
\* HashCacheFile::open: the map it starts with
OpenedMap(file) ==
    IF file = NoCacheFile \/ OpenOutcome(file) # "Ok" THEN EmptyCache ELSE JsonDecode(file)

\* the HashCache of one directory inside all_caches
DirCache(cache, d) == [n \in FileNames |-> IF DirOf(n) = d THEN cache[n] ELSE NoEntry]

\* AllCaches::cache_for_dir for the directories an operation touches: those not
\* yet held are opened; a directory whose open fails is not registered
OpensAgain(d, touched) ==
    d \in touched /\ OpenOutcome(dir_cache_files[d]) = "Ok"
Opens(d, touched) ==
    d \in touched /\ ~dir_loaded[d] /\ OpenOutcome(dir_cache_files[d]) = "Ok"
CanOpen(d) == dir_loaded[d] \/ OpenOutcome(dir_cache_files[d]) = "Ok"
CachesAfterLoad(touched) ==
    [n \in FileNames |->
        IF Opens(DirOf(n), touched) THEN OpenedMap(dir_cache_files[DirOf(n)])[n]
        ELSE all_caches[n]]
LoadNothing(touched) ==
    /\ dir_loaded' = dir_loaded
    /\ dir_on_disk_state' = dir_on_disk_state
    /\ all_caches' = all_caches
Load(touched) ==
    /\ dir_loaded' = [d \in Dirs |-> dir_loaded[d] \/ Opens(d, touched)]
    /\ dir_on_disk_state' =
          [d \in Dirs |-> IF Opens(d, touched)
                          THEN CalculateHash(OpenedMap(dir_cache_files[d]))
                          ELSE dir_on_disk_state[d]]
    /\ all_caches' = CachesAfterLoad(touched)

ingestVars == <<fs_files, store, all_caches, op, plan, op_log, op_cached,
                wd_parents, branch_ref, wd_state_file, modified_since, commits,
                modifies,
               wd_branch, commit_log, acVars>>

\* DEFAULT_BRANCH_NAME, and Option::None for a detached work directory
DefaultBranch == "master"
NoBranch == ""
\* the work-dir state file: absent, or the WorkDirState last flushed
NoStateFile == [absent |-> TRUE]
WorkDirState(parents, branch) == [parents |-> parents, branch |-> branch]

NoStats == [size |-> -1, mtime |-> -1]
NoOp == [kind |-> "none", file |-> "", stats |-> NoStats, content |-> <<>>,
         entry_before |-> NoEntry, hash |-> ZeroHash]
CommitMessage == "m"

\* what an AllCaches call reports: a CacheStatus, or the error of the open
NoAcResult == [file |-> "", status |-> "none", hash |-> NoKey, size |-> -1,
               cache_file |-> "", bad_json |-> NoCacheFile]

\* a run begins: the caches of the directories it checks are loaded, and its
\* calls become the plan
Begin(kind, file, run, cached, touched) ==
    /\ op.kind = "none"
    /\ Load(touched)
    /\ op' = [kind |-> kind, file |-> file,
              stats |-> IF file = "" THEN NoStats ELSE StatsOf(fs_files[file]),
              content |-> IF file = "" THEN <<>> ELSE fs_files[file].content,
              entry_before |-> IF file = "" THEN NoEntry
                              ELSE CachesAfterLoad(touched)[file],
              hash |-> run.hash]
    /\ plan' = run.steps
    /\ op_log' = <<>>
    /\ op_cached' = cached
    /\ UNCHANGED <<fs_files, store, wd_parents, branch_ref,
                   wd_state_file, modified_since, modifies>>
    /\ UNCHANGED <<dir_cache_files, ac_result, interrupted>>
    /\ UNCHANGED <<wd_branch, commit_log>>

\* ObjectFsTransfer::hash_file / FileStore::hash_file on a file
BeginHashFile(f) ==
    LET run == HashFileRun(CachesAfterLoad({DirOf(f)}), f, fs_files[f]) IN
    /\ Begin("hash_file", f, run, IF run.steps = <<>> THEN {run.hash} ELSE {},
             {DirOf(f)})
    /\ UNCHANGED commits

\* Repo::store_file on a file
BeginStoreFile(f) ==
    LET objs == StoreFileObjects(fs_files[f].content) IN
    /\ Begin("store_file", f,
             [steps |-> StoreSteps(objs), hash |-> LastHash(objs)], {}, {})
    /\ UNCHANGED commits

\* dir_to_partial_tree followed by hash_partial_tree on the work directory
BeginHashPartialTree ==
    LET caches == CachesAfterLoad(Dirs)
        partial == DirToPartialTree(caches, fs_files, RootDir) IN
    /\ \A d \in Dirs : CanOpen(d)
    /\ Begin("hash_partial_tree", "",
             HashPartialTreeRun(caches, fs_files, partial),
             PartialCached(partial), Dirs)
    /\ UNCHANGED commits

\* WorkDir::commit after hash_path: store the Commit, set the parents, update
\* the ref of the branch if there is one, flush the state
CommitStepsAlwaysRef(commit, branch) ==
    <<StoreStep(commit), [step |-> "parents", hash |-> ObjectHash(commit)],
      [step |-> "update_ref", hash |-> ObjectHash(commit)], [step |-> "flush_state"]>>
CommitSteps(commit, branch) ==
    <<StoreStep(commit), [step |-> "parents", hash |-> ObjectHash(commit)]>> \o
    (IF branch # NoBranch
     THEN <<[step |-> "update_ref", hash |-> ObjectHash(commit)]>> ELSE <<>>) \o
    <<[step |-> "flush_state"]>>

\* WorkDir::commit: hash_path of the work directory, the Commit, the new
\* parents, the branch ref, the state file
BeginCommit ==
    LET caches == CachesAfterLoad(Dirs)
        tree_run == HashPathRun(caches, fs_files, RootDir)
        commit == Commit(tree_run.hash, wd_parents, CommitMessage)
        hash == ObjectHash(commit) IN
    /\ commits < MaxCommits
    /\ \A d \in Dirs : CanOpen(d)
    /\ tree_run.some
    /\ Begin("commit", "",
             [steps |-> tree_run.steps \o CommitSteps(commit, wd_branch),
              hash |-> hash],
             PlanCached(BuildHashPlan(caches, fs_files, RootDir)), Dirs)
    /\ commits' = commits + 1

\* store_object(obj): the object is in the store when the call returns
StepStore ==
    /\ plan # <<>> /\ Head(plan).step = "store"
    /\ store' = store \cup {Head(plan).obj}
    /\ op_log' = Append(op_log, Head(plan).obj)
    /\ plan' = Tail(plan)
    /\ UNCHANGED <<fs_files, all_caches, op, op_cached, wd_parents, branch_ref,
                   wd_state_file, modified_since, commits, modifies>>
    /\ UNCHANGED acVars
    /\ commit_log' = IF Head(plan).obj.type = "Commit"
                      THEN Append(commit_log, Head(plan).obj) ELSE commit_log
    /\ UNCHANGED wd_branch

\* cache.insert(file_path, file_stats, last_hash)
StepCacheInsert ==
    /\ plan # <<>> /\ Head(plan).step = "cache"
    /\ dir_loaded[DirOf(Head(plan).name)]
    /\ all_caches' = InsertEntryMap(all_caches, Head(plan).name, Head(plan).stats,
                                    Head(plan).hash)
    /\ modified_since' = [modified_since EXCEPT ![Head(plan).name] = FALSE]
    /\ plan' = Tail(plan)
    /\ UNCHANGED <<fs_files, store, op, op_log, op_cached, wd_parents,
                   branch_ref, wd_state_file, commits, modifies>>
    /\ UNCHANGED <<dir_cache_files, dir_loaded, dir_on_disk_state, ac_result, interrupted>>
    /\ UNCHANGED <<wd_branch, commit_log>>

\* WorkDir::commit: self.state.parents = vec![hash]
StepSetParentsAppend ==
    /\ plan # <<>> /\ Head(plan).step = "parents"
    /\ wd_parents' = Append(wd_parents, Head(plan).hash)
    /\ plan' = Tail(plan)
    /\ UNCHANGED <<fs_files, store, all_caches, op, op_log, op_cached,
                   branch_ref, wd_state_file, modified_since, commits, modifies>>
    /\ UNCHANGED acVars
    /\ UNCHANGED <<wd_branch, commit_log>>
StepSetParents ==
    /\ plan # <<>> /\ Head(plan).step = "parents"
    /\ wd_parents' = <<Head(plan).hash>>
    /\ plan' = Tail(plan)
    /\ UNCHANGED <<fs_files, store, all_caches, op, op_log, op_cached,
                   branch_ref, wd_state_file, modified_since, commits, modifies>>
    /\ UNCHANGED acVars
    /\ UNCHANGED <<wd_branch, commit_log>>

\* WorkDir::commit: self.update_ref(branch, hash)
StepUpdateRef ==
    /\ plan # <<>> /\ Head(plan).step = "update_ref"
    /\ branch_ref' = Head(plan).hash
    /\ plan' = Tail(plan)
    /\ UNCHANGED <<fs_files, store, all_caches, op, op_log, op_cached,
                   wd_parents, wd_state_file, modified_since, commits, modifies>>
    /\ UNCHANGED acVars
    /\ UNCHANGED <<wd_branch, commit_log>>

\* WorkDir::commit: self.state.flush()
StepFlushState ==
    /\ plan # <<>> /\ Head(plan).step = "flush_state"
    /\ wd_state_file' = WorkDirState(wd_parents, wd_branch)
    /\ plan' = Tail(plan)
    /\ UNCHANGED <<fs_files, store, all_caches, op, op_log, op_cached,
                   wd_parents, branch_ref, modified_since, commits, modifies>>
    /\ UNCHANGED acVars
    /\ UNCHANGED <<wd_branch, commit_log>>

\* the next call returns an error (try! / ?): the operation ends there
FailStep ==
    /\ plan # <<>> /\ Head(plan).step \in {"store", "update_ref", "flush_state"}
    /\ op' = NoOp
    /\ plan' = <<>>
    /\ UNCHANGED <<fs_files, store, all_caches, op_log, op_cached, wd_parents,
                   branch_ref, wd_state_file, modified_since, commits, modifies>>
    /\ UNCHANGED acVars
    /\ UNCHANGED <<wd_branch, commit_log>>

\* the operation returns Ok(hash)
Finish ==
    /\ op.kind # "none" /\ plan = <<>>
    /\ op' = NoOp
    /\ UNCHANGED <<fs_files, store, all_caches, plan, op_log, op_cached, wd_parents,
                   branch_ref, wd_state_file, modified_since, commits, modifies>>
    /\ UNCHANGED acVars
    /\ UNCHANGED <<wd_branch, commit_log>>

\* another program writes a work-directory file between operations; it may
\* keep the size and may keep or set back the modification time
ModifyFile(f, content, mtime) ==
    /\ op.kind = "none"
    /\ modifies < MaxModifies
    /\ content # fs_files[f].content \/ mtime # fs_files[f].mtime
    /\ fs_files' = [fs_files EXCEPT ![f] = [content |-> content, mtime |-> mtime]]
    /\ modified_since' = [modified_since EXCEPT
                            ![f] = @ \/ content # fs_files[f].content]
    /\ modifies' = modifies + 1
    /\ UNCHANGED <<store, all_caches, op, plan, op_log, op_cached, wd_parents,
                   branch_ref, wd_state_file, commits>>
    /\ UNCHANGED acVars
    /\ UNCHANGED <<wd_branch, commit_log>>

\* StepCacheInsert when the directory's cache file cannot be opened: hash_file
\* has stored the objects and returns the error of cache.insert
StepCacheInsertFails ==
    /\ plan # <<>> /\ Head(plan).step = "cache"
    /\ ~CanOpen(DirOf(Head(plan).name))
    /\ ac_result' = [file |-> Head(plan).name,
                     status |-> OpenOutcome(dir_cache_files[DirOf(Head(plan).name)]),
                     hash |-> NoKey, size |-> -1,
                     cache_file |-> DirOf(Head(plan).name),
                     bad_json |-> IF OpenOutcome(dir_cache_files[DirOf(Head(plan).name)])
                                      = "CorruptCacheFile"
                                  THEN dir_cache_files[DirOf(Head(plan).name)]
                                  ELSE NoCacheFile]
    /\ op' = NoOp
    /\ plan' = <<>>
    /\ UNCHANGED <<fs_files, store, all_caches, op_log, op_cached, wd_parents,
                   branch_ref, wd_state_file, modified_since, commits, modifies>>
    /\ UNCHANGED <<dir_cache_files, dir_loaded, dir_on_disk_state, interrupted>>
    /\ UNCHANGED <<wd_branch, commit_log>>

\* AllCaches::check(file_path, stats): cache_for_dir(parent), then HashCache::check
AllCachesCheck(f) ==
    LET d == DirOf(f)
        outcome == OpenOutcome(dir_cache_files[d])
        r == HashCacheCheck(CachesAfterLoad({d}), f, StatsOf(fs_files[f])) IN
    /\ op.kind = "none"
    /\ IF CanOpen(d)
       THEN /\ Load({d})
            /\ ac_result' = [file |-> f, status |-> r.status, hash |-> r.hash,
                             size |-> r.size, cache_file |-> "",
                             bad_json |-> NoCacheFile]
       ELSE /\ LoadNothing({d})
            /\ ac_result' = [file |-> f, status |-> outcome, hash |-> NoKey,
                             size |-> -1, cache_file |-> d,
                             bad_json |-> IF outcome = "CorruptCacheFile"
                                          THEN dir_cache_files[d] ELSE NoCacheFile]
    /\ UNCHANGED <<fs_files, store, op, plan, op_log, op_cached, wd_parents,
                   branch_ref, wd_state_file, modified_since, commits, modifies>>
    /\ UNCHANGED <<dir_cache_files, interrupted>>
    /\ UNCHANGED <<wd_branch, commit_log>>

\* does the HashCacheFile of directory d write its file when flushed
FlushWrites(d) ==
    dir_loaded[d] /\ CalculateHash(DirCache(all_caches, d)) # dir_on_disk_state[d]

\* AllCaches::flush: directory_caches.clear(), which drops, and so flushes,
\* every HashCacheFile held
AllCachesFlush ==
    /\ op.kind = "none"
    /\ dir_cache_files' = [d \in Dirs |-> IF FlushWrites(d)
                                         THEN JsonEncode(DirCache(all_caches, d))
                                         ELSE dir_cache_files[d]]
    /\ all_caches' = EmptyCache
    /\ dir_loaded' = [d \in Dirs |-> FALSE]
    /\ dir_on_disk_state' = [d \in Dirs |-> {}]
    /\ interrupted' = [f \in FileNames |->
                         IF dir_loaded[DirOf(f)] THEN ZeroHash ELSE interrupted[f]]
    /\ UNCHANGED <<fs_files, store, op, plan, op_log, op_cached, wd_parents,
                   branch_ref, wd_state_file, modified_since, commits, modifies>>
    /\ ac_result' = NoAcResult
    /\ UNCHANGED <<wd_branch, commit_log>>

\* the root hash that stopping now leaves without a cache entry on disk: of a
\* hash_file whose objects are all stored, or of an entry inserted and not flushed
LostHash(f) ==
    IF /\ op.kind = "hash_file" /\ op.file = f /\ op_cached = {}
       /\ plan # <<>> /\ Head(plan).step = "cache"
    THEN op.hash
    ELSE IF /\ dir_loaded[DirOf(f)] /\ all_caches[f] # NoEntry
            /\ all_caches[f] # OpenedMap(dir_cache_files[DirOf(f)])[f]
         THEN all_caches[f].hash
         ELSE interrupted[f]

\* the process stops without running the destructors (kill, power loss):
\* everything in memory is lost, the files stay as they are
Crash ==
    /\ interrupted' = [f \in FileNames |-> LostHash(f)]
    /\ all_caches' = EmptyCache
    /\ dir_loaded' = [d \in Dirs |-> FALSE]
    /\ dir_on_disk_state' = [d \in Dirs |-> {}]
    /\ op' = NoOp
    /\ plan' = <<>>
    /\ UNCHANGED <<fs_files, store, op_log, op_cached, wd_parents, branch_ref,
                   wd_state_file, modified_since, commits, modifies,
                   dir_cache_files>>
    /\ ac_result' = NoAcResult
    /\ UNCHANGED <<wd_branch, commit_log>>

\* ------------------------------------- transfers between directories and store
\* The file tree the transfer engines work on: a source directory D and a
\* destination path X.  A path is the sequence of its names.  D can hold file f,
\* file or directory e (with file e/f and directory e/g, with file e/g/f), and
\* the object store root s, whose object files o stands for; X can hold the same
\* names and a file h.
SrcRoot == <<"D">>
DestRoot == <<"X">>
RelPaths == {<<>>, <<"f">>, <<"e">>, <<"e", "f">>, <<"e", "g">>, <<"e", "g", "f">>,
             <<"s">>, <<"s", "o">>, <<"h">>}
TPaths == {r \o q : r \in {SrcRoot, DestRoot}, q \in RelPaths}
\* names in ascending order, as BTreeMap iterates them
TNameSeq == <<"e", "f", "g", "h", "o", "s">>

AbsentNode == [kind |-> "absent", content |-> <<>>, mtime |-> -1]
DirNode == [kind |-> "dir", content |-> <<>>, mtime |-> 0]
FileNode(content, mtime) == [kind |-> "file", content |-> content, mtime |-> mtime]
\* the modification time a file gets when the program writes it
WriteTime == 1

\* read_dir(path)
Children(fs, p) ==
    {q \in TPaths : Len(q) = Len(p) + 1 /\ IsPrefix(p, q) /\ fs[q].kind # "absent"}
\* path.file_name()
NameOf(p) == p[Len(p)]

\* IgnoreList::ignores(path): path equals or descends from a stored prefix
Ignores(list, p) == \E x \in list : IsPrefix(x, p)
\* IgnoreList::default(): no path of the file tree above (it names the cache
\* files, which the tree leaves out)
DefaultIgnoreList == {}
\* with_object_store of each engine: the ignore list the engine consults
EngineIgnoreList(engine, store_root) ==
    IF engine = "ObjectFsTransfer"
    THEN DefaultIgnoreList \cup {store_root}    \* ignored: ignored
    ELSE DefaultIgnoreList                       \* file_store: FileStore::new()

\* what hashing a path gives: whether there is a hash, the hash, the objects
\* stored for it, and the files whose hash went into the cache
NoHash == [some |-> FALSE, hash |-> ZeroHash, objs |-> {}, hashed |-> {}]

\* hash_file of either engine, on the file at path p
HashFileAt(fs, cache, p) ==
    LET st == HashCacheCheck(cache, p, StatsOf(fs[p]))
        objs == ReadFileObjects(fs[p].content) IN
    IF st.status = "Cached"
    THEN [some |-> TRUE, hash |-> st.hash, objs |-> {}, hashed |-> {}]
    ELSE [some |-> TRUE, hash |-> LastHash(objs),
          objs |-> {objs[i] : i \in DOMAIN objs}, hashed |-> {p}]

\* the Tree of the children that gave a hash
TreeOfAll(rs, inc) ==
    [type |-> "Tree",
     entries |-> {[name |-> NameOf(q), hash |-> rs[q].hash] : q \in DOMAIN rs}]
TreeOf(rs, inc) ==
    [type |-> "Tree",
     entries |-> {[name |-> NameOf(q), hash |-> rs[q].hash] : q \in inc}]

\* FsTransfer::hash_path: FsOnlyPlanBuilder, then HashAndStoreOp on the plan
RECURSIVE HashAndStore(_, _, _, _)
HashAndStore(fs, cache, ignored, p) ==
    IF Ignores(ignored, p) THEN NoHash
    ELSE IF fs[p].kind = "file" THEN HashFileAt(fs, cache, p)
    ELSE LET rs == [q \in Children(fs, p) |-> HashAndStore(fs, cache, ignored, q)]
             inc == {q \in Children(fs, p) : rs[q].some}
             tree == TreeOf(rs, inc) IN
         IF inc = {} THEN NoHash
         ELSE [some |-> TRUE, hash |-> ObjectHash(tree),
               objs |-> UNION {rs[q].objs : q \in inc} \cup {tree},
               hashed |-> UNION {rs[q].hashed : q \in inc}]

\* ObjectFsTransfer: dir_to_partial_tree, then hash_partial_tree, below the root
RECURSIVE HashPartial(_, _, _, _)
HashPartial(fs, cache, ignored, p) ==
    LET kids == {q \in Children(fs, p) : ~Ignores(ignored, q)}
        rs == [q \in kids |-> IF fs[q].kind = "file" THEN HashFileAt(fs, cache, q)
                              ELSE HashPartial(fs, cache, ignored, q)]
        inc == {q \in kids : rs[q].some}
        tree == TreeOf(rs, inc) IN
    IF inc = {} THEN NoHash
    ELSE [some |-> TRUE, hash |-> ObjectHash(tree),
          objs |-> UNION {rs[q].objs : q \in inc} \cup {tree},
          hashed |-> UNION {rs[q].hashed : q \in inc}]

\* hash_path answering an empty root with the hash of an empty Tree
IngestRunStoresEmptyTree(engine, fs, cache, ignored, root) ==
    LET r == IF engine = "FsTransfer" THEN HashAndStore(fs, cache, ignored, root)
             ELSE HashPartial(fs, cache, ignored, root) IN
    IF r.some THEN r
    ELSE [some |-> TRUE, hash |-> ObjectHash(NewTree), objs |-> {NewTree},
          hashed |-> {}]

\* ingest of the directory at root by the engine: FsTransfer::hash_path, or
\* dir_to_partial_tree and hash_partial_tree, which stores the root's Tree
\* also when it is empty
IngestRun(engine, fs, cache, ignored, root) ==
    IF engine = "FsTransfer" THEN HashAndStore(fs, cache, ignored, root)
    ELSE LET r == HashPartial(fs, cache, ignored, root) IN
         IF r.some THEN r
         ELSE [some |-> TRUE, hash |-> ObjectHash(NewTree), objs |-> {NewTree},
               hashed |-> {}]

\* the caches after an ingest: cache.insert(path, stats, hash) for each file hashed
CacheAfterIngest(fs, cache, hashed) ==
    [p \in TPaths |->
        IF p \in hashed
        THEN [filestats |-> StatsOf(fs[p]),
              hash |-> LastHash(ReadFileObjects(fs[p].content))]
        ELSE cache[p]]

\* copy_blob_content: the bytes of a Blob, or of the chunks of a ChunkedBlob
RECURSIVE ChunkContents(_)
ChunkContents(chunks) ==
    IF chunks = <<>> THEN <<>>
    ELSE chunks[1].hash.sha.content \o ChunkContents(Tail(chunks))
BlobContentFirstChunk(hash) ==
    IF hash.sha.type = "Blob" THEN hash.sha.content
    ELSE hash.sha.chunks[1].hash.sha.content
BlobContent(hash) ==
    IF hash.sha.type = "Blob" THEN hash.sha.content ELSE ChunkContents(hash.sha.chunks)
\* open_object(hash) succeeds: the store holds the object (the objects a
\* ChunkedBlob lists are opened later, while its content is copied)
ReadableAlways(objects, hash) == TRUE
Readable(objects, hash) == hash.sha \in objects

\* remove_dir_all(path)
RemoveDirTop(fs, p) == [fs EXCEPT ![p] = AbsentNode]
RemoveDirAll(fs, p) ==
    [q \in TPaths |-> IF IsPrefix(p, q) THEN AbsentNode ELSE fs[q]]

\* ExtractObjectOp::pre_descend and extract_tree_open: the directory at p
PreDescendKeepFile(fs, p) ==
    IF fs[p].kind = "absent" THEN [fs EXCEPT ![p] = DirNode] ELSE fs
PreDescend(fs, p) ==
    IF fs[p].kind # "dir" THEN [fs EXCEPT ![p] = DirNode] ELSE fs

\* the error a call returned: its ErrorKind and the path or hash it names
NoError == [kind |-> "none", at |-> <<>>]
WouldClobberDirectory(p) == [kind |-> "WouldClobberDirectory", at |-> <<p>>]
ObjectNotFound(hash) == [kind |-> "ObjectNotFound", at |-> <<hash>>]
NotABlob(hash) == [kind |-> "Expected a Blob or ChunkedBlob", at |-> <<hash>>]

\* copy_blob_content(hash, writer): open_object, then the content of a Blob,
\* or the content of each chunk of a ChunkedBlob in the order of the index,
\* each resolved the same way; the first object that cannot be opened ends
\* the copy, with the bytes of the chunks before it already written
CopyOk(bytes) == [ok |-> TRUE, bytes |-> bytes, err |-> NoError]
RECURSIVE CopyBlobContent(_, _)
RECURSIVE CopyChunks(_, _)
CopyChunksFirstOnly(objects, chunks) ==
    IF chunks = <<>> THEN CopyOk(<<>>)
    ELSE CopyBlobContent(objects, chunks[1].hash)
CopyBlobContent(objects, hash) ==
    IF hash.sha \notin objects
    THEN [ok |-> FALSE, bytes |-> <<>>, err |-> ObjectNotFound(hash)]
    ELSE IF hash.sha.type = "Blob" THEN CopyOk(hash.sha.content)
    ELSE IF hash.sha.type = "ChunkedBlob" THEN CopyChunks(objects, hash.sha.chunks)
    ELSE [ok |-> FALSE, bytes |-> <<>>, err |-> NotABlob(hash)]
CopyChunks(objects, chunks) ==
    IF chunks = <<>> THEN CopyOk(<<>>)
    ELSE LET first == CopyBlobContent(objects, chunks[1].hash) IN
         IF ~first.ok THEN first
         ELSE LET rest == CopyChunks(objects, Tail(chunks)) IN
              [ok |-> rest.ok, bytes |-> first.bytes \o rest.bytes, err |-> rest.err]

\* the write of the file alone, with no cache entry
WriteFileNoInsert(objects, st, hash, p) ==
    [st EXCEPT !.fs[p] = FileNode(CopyBlobContent(objects, hash).bytes, WriteTime)]

\* the file at p opened with truncate and written with the content of hash,
\* and its cache entry; when the copy fails the file keeps the bytes written
\* up to there, no entry is inserted and the entry of before stays
WriteFile(objects, st, hash, p) ==
    LET copy == CopyBlobContent(objects, hash)
        fs == [st.fs EXCEPT ![p] = FileNode(copy.bytes, WriteTime)] IN
    IF copy.ok
    THEN [fs |-> fs,
          cache |-> [st.cache EXCEPT
                       ![p] = [filestats |-> [size |-> Len(copy.bytes),
                                              mtime |-> WriteTime],
                               hash |-> hash]],
          ok |-> TRUE, err |-> st.err]
    ELSE [fs |-> fs, cache |-> st.cache, ok |-> FALSE, err |-> copy.err]

\* the cache reports Cached with the hash to extract
CacheMatchesAnyHash(st, hash, p) ==
    HashCacheCheck(st.cache, p, StatsOf(st.fs[p])).status = "Cached"
CacheMatches(st, hash, p) ==
    HashCacheCheck(st.cache, p, StatsOf(st.fs[p]))
        = [status |-> "Cached", hash |-> hash, size |-> -1]

\* FileStore::extract_file (FsTransfer)
FileStoreExtractFile(objects, st, hash, p) ==
    IF st.fs[p].kind = "file" /\ CacheMatches(st, hash, p) THEN st
    ELSE WriteFile(objects,
                   [st EXCEPT !.fs = IF st.fs[p].kind = "dir"
                                     THEN RemoveDirAll(st.fs, p) ELSE st.fs],
                   hash, p)

\* ObjectFsTransfer::extract_file_open
ExtractFileOpen(objects, st, hash, p) ==
    IF st.fs[p].kind # "absent" /\ CacheMatches(st, hash, p) THEN st
    ELSE IF st.fs[p].kind = "dir"
    THEN [st EXCEPT !.ok = FALSE, !.err = WouldClobberDirectory(p)]
    ELSE WriteFile(objects, st, hash, p)

\* extract_object of either engine: st is the file tree, the caches,
\* whether every call so far returned Ok, and the error of the one that did not
RECURSIVE ExtractNode(_, _, _, _, _)
RECURSIVE ExtractEntries(_, _, _, _, _, _)
ExtractNode(engine, objects, st, hash, p) ==
    IF ~st.ok THEN st
    ELSE IF ~Readable(objects, hash)
    THEN [st EXCEPT !.ok = FALSE, !.err = ObjectNotFound(hash)]
    ELSE IF hash.sha.type = "Tree"
    THEN ExtractEntries(engine, objects, [st EXCEPT !.fs = PreDescend(st.fs, p)],
                        hash.sha, p, 1)
    ELSE IF engine = "FsTransfer" THEN FileStoreExtractFile(objects, st, hash, p)
    ELSE ExtractFileOpen(objects, st, hash, p)
ExtractEntries(engine, objects, st, tree, p, i) ==
    IF i > Len(TNameSeq) THEN st
    ELSE LET es == {e \in tree.entries : e.name = TNameSeq[i]} IN
         IF es = {} THEN ExtractEntries(engine, objects, st, tree, p, i + 1)
         ELSE ExtractEntries(engine, objects,
                             ExtractNode(engine, objects, st,
                                         (CHOOSE e \in es : TRUE).hash,
                                         p \o <<TNameSeq[i]>>),
                             tree, p, i + 1)

VARIABLES t_engine,      \* "FsTransfer" or "ObjectFsTransfer"
          t_store_root,  \* path of the object store root
          t_ignored,     \* the ignore list the engine consults
          t_fs,          \* path -> file, directory or absent
          t_cache,       \* path -> cache entry of the file (AllCaches)
          t_store,       \* the objects held by the object store
          t_phase,       \* "start", "ingested", "extracted", "rehashed"
          t_src_hash,    \* hash the latest ingest of D returned, or ZeroHash
          t_src_fs,      \* the file tree as that ingest read it
          t_failed,      \* the latest ingest of D returned an error
          t_stale,       \* files rewritten with the size and mtime of their cache entry
          t_pre_fs,      \* the file tree before the extract
          t_pre_cache,   \* the caches before the extract
          t_ok,          \* the extract returned Ok
          t_dest_hash,   \* hash the ingest of X after the extract returned
          t_hash,        \* hash the latest extract_object was called with
          t_err,         \* the error the latest extract_object returned
          t_parents,     \* WorkDirState.parents of the work directory D
          t_commit_log   \* the Commit objects the commits of D stored, in order

transferVars == <<t_engine, t_store_root, t_ignored, t_fs, t_cache, t_store, t_phase,
                  t_src_hash, t_src_fs, t_failed, t_stale, t_pre_fs, t_pre_cache,
                  t_ok, t_dest_hash, t_hash, t_err, t_parents, t_commit_log>>

StoreInSrc == SrcRoot \o <<"s">>
ObjectFiles == StoreInSrc \o <<"o">>
NoFs == [p \in TPaths |-> AbsentNode]
NoTCache == [p \in TPaths |-> NoEntry]

\* the most objects a store holds when an ingest or commit begins
MaxObjects == 16

\* the files below the store root stand together as one file, whose content
\* changes whenever an object is added to the store
ObjectFileContent(objects) == [i \in 1..Cardinality(objects) |-> 0]

\* the object files exist once the store holds an object
WithObjectFiles(fs, objects) ==
    IF t_store_root = StoreInSrc /\ objects # {}
    THEN [fs EXCEPT ![ObjectFiles] = FileNode(ObjectFileContent(objects), WriteTime)]
    ELSE fs

\* hash_path(D), or hash_partial_tree(D, dir_to_partial_tree(D))
IngestDir ==
    LET r == IngestRun(t_engine, t_fs, t_cache, t_ignored, SrcRoot) IN
    /\ t_phase \in {"start", "ingested"}
    /\ Cardinality(t_store) <= MaxObjects
    /\ t_src_fs' = t_fs
    /\ IF r.some
       THEN /\ t_store' = t_store \cup r.objs
            /\ t_cache' = CacheAfterIngest(t_fs, t_cache, r.hashed)
            /\ t_fs' = WithObjectFiles(t_fs, t_store \cup r.objs)
            /\ t_src_hash' = r.hash
            /\ t_failed' = FALSE
            /\ t_phase' = "ingested"
       ELSE /\ t_failed' = TRUE          \* "Nothing to hash (all ignored?)"
            /\ t_src_hash' = ZeroHash
            /\ t_phase' = "start"
            /\ UNCHANGED <<t_store, t_cache, t_fs>>
    /\ UNCHANGED <<t_engine, t_store_root, t_ignored, t_stale, t_pre_fs,
                   t_pre_cache, t_ok, t_dest_hash, t_hash, t_err, t_parents,
                   t_commit_log>>

\* the bytes of a file, each replaced by the other value
OtherBytes(bytes) == [i \in 1..Len(bytes) |-> 1 - bytes[i]]

\* another program rewrites file D/f between two operations, keeping its size
\* and setting back its modification time
RewriteFile ==
    LET p == SrcRoot \o <<"f">> IN
    /\ t_phase = "ingested"
    /\ t_stale = {}
    /\ t_fs[p].kind = "file" /\ t_fs[p].content # <<>>
    /\ t_fs' = [t_fs EXCEPT ![p] = FileNode(OtherBytes(t_fs[p].content), t_fs[p].mtime)]
    /\ t_stale' = {p}
    /\ UNCHANGED <<t_engine, t_store_root, t_ignored, t_cache, t_store, t_phase,
                   t_src_hash, t_src_fs, t_failed, t_pre_fs, t_pre_cache, t_ok,
                   t_dest_hash, t_hash, t_err, t_parents, t_commit_log>>

\* extract_object(hash, X) with the hash the ingest returned
ExtractObject ==
    LET r == ExtractNode(t_engine, t_store,
                         [fs |-> t_fs, cache |-> t_cache, ok |-> TRUE, err |-> NoError],
                         t_src_hash, DestRoot) IN
    /\ t_phase = "ingested"
    /\ t_pre_fs' = t_fs
    /\ t_pre_cache' = t_cache
    /\ t_fs' = r.fs
    /\ t_cache' = r.cache
    /\ t_ok' = r.ok
    /\ t_err' = r.err
    /\ t_phase' = "extracted"
    /\ t_hash' = t_src_hash
    /\ UNCHANGED <<t_engine, t_store_root, t_ignored, t_store, t_src_hash,
                   t_src_fs, t_failed, t_stale, t_dest_hash, t_parents, t_commit_log>>

\* the contents whose file objects extract_object is asked for; no file of
\* the tree has the last, so its object is never in the store
ExtractContents == {<< >>, <<0>>, <<0, 1, 0>>, <<1, 1, 0>>, <<0, 0>>}

\* extract_object(hash, X) with the hash of a Blob or ChunkedBlob
ExtractFileOnto(phases) ==
    /\ t_phase \in phases
    /\ \E c \in ExtractContents :
          LET h == LastHash(ReadFileObjects(c))
              r == ExtractNode(t_engine, t_store,
                               [fs |-> t_fs, cache |-> t_cache, ok |-> TRUE, err |-> NoError],
                               h, DestRoot) IN
          /\ t_hash' = h
          /\ t_fs' = r.fs
          /\ t_cache' = r.cache
          /\ t_ok' = r.ok
          /\ t_err' = r.err
    /\ t_pre_fs' = t_fs
    /\ t_pre_cache' = t_cache
    /\ t_phase' = "file_extracted"
    /\ UNCHANGED <<t_engine, t_store_root, t_ignored, t_store, t_src_hash,
                   t_src_fs, t_failed, t_stale, t_dest_hash, t_parents, t_commit_log>>

ExtractFileObject == ExtractFileOnto({"start", "ingested"})

\* hash_path(X), or hash_partial_tree(X, dir_to_partial_tree(X)), after the extract
IngestDest ==
    LET r == IngestRun(t_engine, t_fs, t_cache, t_ignored, DestRoot) IN
    /\ t_phase = "extracted"
    /\ t_ok
    /\ r.some
    /\ t_store' = t_store \cup r.objs
    /\ t_cache' = CacheAfterIngest(t_fs, t_cache, r.hashed)
    /\ t_fs' = WithObjectFiles(t_fs, t_store \cup r.objs)
    /\ t_dest_hash' = r.hash
    /\ t_phase' = "rehashed"
    /\ UNCHANGED <<t_engine, t_store_root, t_ignored, t_src_hash, t_src_fs,
                   t_failed, t_stale, t_pre_fs, t_pre_cache, t_ok, t_hash, t_err,
                   t_parents, t_commit_log>>

\* WorkDir::commit on the work directory D, whose hidden directory is the store
\* root: hash_path(D), store the Commit, set the parents
CommitWorkDir ==
    LET r == IngestRun(t_engine, t_fs, t_cache, t_ignored, SrcRoot)
        commit == Commit(r.hash, t_parents, CommitMessage)
        objects == t_store \cup r.objs \cup {commit} IN
    /\ t_phase \in {"start", "committed"}
    /\ t_store_root = StoreInSrc
    /\ Len(t_commit_log) < MaxCommits
    /\ Cardinality(t_store) <= MaxObjects
    /\ IF r.some
       THEN /\ t_store' = objects
            /\ t_cache' = CacheAfterIngest(t_fs, t_cache, r.hashed)
            /\ t_fs' = WithObjectFiles(t_fs, objects)
            /\ t_parents' = <<ObjectHash(commit)>>
            /\ t_commit_log' = Append(t_commit_log, commit)
            /\ t_failed' = FALSE
            /\ t_phase' = "committed"
       ELSE /\ t_failed' = TRUE          \* "Nothing to hash (all ignored?)"
            /\ UNCHANGED <<t_store, t_cache, t_fs, t_parents, t_commit_log, t_phase>>
    /\ UNCHANGED <<t_engine, t_store_root, t_ignored, t_src_hash, t_src_fs, t_stale,
                   t_pre_fs, t_pre_cache, t_ok, t_dest_hash, t_hash, t_err>>

\* hash_file(path) of either engine
HashFileOn(path, phases) ==
    LET r == HashFileAt(t_fs, t_cache, path) IN
    /\ t_phase \in phases
    /\ t_fs[path].kind = "file"
    /\ Cardinality(t_store) <= MaxObjects
    /\ t_hash' = r.hash
    /\ t_store' = t_store \cup r.objs
    /\ t_cache' = CacheAfterIngest(t_fs, t_cache, r.hashed)
    /\ t_fs' = WithObjectFiles(t_fs, t_store \cup r.objs)
    /\ UNCHANGED <<t_engine, t_store_root, t_ignored, t_phase, t_src_hash, t_src_fs,
                   t_failed, t_stale, t_pre_fs, t_pre_cache, t_ok, t_dest_hash,
                   t_err, t_parents, t_commit_log>>

HashFileCall == HashFileOn(SrcRoot \o <<"f">>, {"start", "ingested"})

\* the objects of every content extract_object is asked for
ExtractObjects ==
    UNION {{ReadFileObjects(c)[i] : i \in DOMAIN ReadFileObjects(c)} :
              c \in ExtractContents}
\* stores that hold them all, or lack the Blob of one chunk
StoreChoices == {ExtractObjects, ExtractObjects \ {Blob(<<0>>)}}

\* the cache entry of D/f when the file was hashed before and its directory's
\* cache file written, and the objects that hash_file stored then
CacheOrigins == {"none", "this store", "another store"}
HashedBefore(fs, origin) ==
    [p \in TPaths |->
        IF p = SrcRoot \o <<"f">> /\ fs[p].kind = "file" /\ origin # "none"
        THEN [filestats |-> StatsOf(fs[p]),
              hash |-> LastHash(ReadFileObjects(fs[p].content))]
        ELSE NoEntry]
StoredBefore(fs, origin) ==
    LET path == SrcRoot \o <<"f">> IN
    IF fs[path].kind = "file" /\ origin = "this store"
    THEN {ReadFileObjects(fs[path].content)[i] :
             i \in DOMAIN ReadFileObjects(fs[path].content)}
    ELSE {}

\* the file trees the operations start from
SrcChoices ==
    {c \in [f : {"absent", "small", "chunked"}, e : {"absent", "file", "dir"},
            ef : BOOLEAN, g : {"absent", "empty", "full"}] :
        c.e # "dir" => (~c.ef /\ c.g = "absent")}
DestChoices ==
    {c \in [x : {"absent", "file", "cached", "modified", "dir", "staledir"},
            f : BOOLEAN, h : BOOLEAN, e : BOOLEAN] :
        c.x # "dir" => (~c.f /\ ~c.h /\ ~c.e)}
DestFileContent == <<1, 1, 0>>
\* the content X had as a file: its cache entry is kept when a directory with
\* the same size and modification time takes its place ("staledir")
StaleFileContent == << >>
\* the content hash_file(X) read when its cache entry was made
HashedContent(dc) == IF dc.x = "staledir" THEN StaleFileContent ELSE DestFileContent
\* the caches and the store after hash_file(X), when X is a file hashed before
\* ("cached"), and rewritten by another program since ("modified")
MkCache(dc) ==
    [p \in TPaths |->
        IF p = DestRoot /\ dc.x \in {"cached", "modified", "staledir"}
        THEN [filestats |-> [size |-> Len(HashedContent(dc)), mtime |-> 0],
              hash |-> LastHash(ReadFileObjects(HashedContent(dc)))]
        ELSE NoEntry]
MkStore(dc) ==
    IF dc.x \in {"cached", "modified", "staledir"}
    THEN {ReadFileObjects(HashedContent(dc))[i] :
             i \in DOMAIN ReadFileObjects(HashedContent(dc))}
    ELSE {}
MkFs(sc, dc, store_root) ==
    [p \in TPaths |->
        IF p = <<"D">> THEN DirNode
        ELSE IF p = <<"D", "f">>
        THEN (IF sc.f = "small" THEN FileNode(<<0>>, 0)
              ELSE IF sc.f = "chunked" THEN FileNode(<<0, 1, 0>>, 0) ELSE AbsentNode)
        ELSE IF p = <<"D", "e">>
        THEN (IF sc.e = "file" THEN FileNode(<<1>>, 0)
              ELSE IF sc.e = "dir" THEN DirNode ELSE AbsentNode)
        ELSE IF p = <<"D", "e", "f">>
        THEN (IF sc.ef THEN FileNode(<<1>>, 0) ELSE AbsentNode)
        ELSE IF p = <<"D", "e", "g">>
        THEN (IF sc.g # "absent" THEN DirNode ELSE AbsentNode)
        ELSE IF p = <<"D", "e", "g", "f">>
        THEN (IF sc.g = "full" THEN FileNode(<<>>, 0) ELSE AbsentNode)
        ELSE IF p = StoreInSrc
        THEN (IF store_root = StoreInSrc THEN DirNode ELSE AbsentNode)
        ELSE IF p = ObjectFiles
        THEN (IF store_root = StoreInSrc /\ MkStore(dc) # {}
              THEN FileNode(ObjectFileContent(MkStore(dc)), WriteTime) ELSE AbsentNode)
        ELSE IF p = <<"X">>
        THEN (IF dc.x \in {"file", "cached"} THEN FileNode(DestFileContent, 0)
              ELSE IF dc.x = "modified" THEN FileNode(<<0>>, 0)
              ELSE IF dc.x \in {"dir", "staledir"} THEN DirNode ELSE AbsentNode)
        ELSE IF p = <<"X", "f">>
        THEN (IF dc.f THEN FileNode(<<1>>, 0) ELSE AbsentNode)
        ELSE IF p = <<"X", "h">>
        THEN (IF dc.h THEN FileNode(<<0>>, 0) ELSE AbsentNode)
        ELSE IF p = <<"X", "e">>
        THEN (IF dc.e THEN DirNode ELSE AbsentNode)
        ELSE IF p = <<"X", "e", "f">>
        THEN (IF dc.e THEN FileNode(<<0>>, 0) ELSE AbsentNode)
        ELSE AbsentNode]
\* prefixes added to the engine's ignore list with IgnoreList::insert
UserIgnoreLists == {{}, {<<"D", "e", "g">>}, {<<"D", "f">>}}
\* the same, and the list that names the ingested directory itself
RootIgnoreLists == UserIgnoreLists \cup {{SrcRoot}}
StoreRoots == {StoreInSrc, <<"R">>}
Engines == {"FsTransfer", "ObjectFsTransfer"}

\* ------------------------------------------- status of a path against an object
\* FsObjComparePlanBuilder works on a CompareNode: the file or directory at a
\* path, if there is one (FileWalkNode: the hash the cache knows, the ignore
\* flag, the metadata), and the object at the same place of a tree, if there is
\* one (ObjectWalkNode: its hash and type).
CompareKeys == {ObjectHash(Blob(<<0>>)), ObjectHash(Blob(<<1>>))}
NoPath == [exists |-> FALSE]
NoObj == [exists |-> FALSE]
FileWalkNodes ==
    [exists : {TRUE}, hash : CompareKeys \cup {NoKey}, ignored : BOOLEAN,
     is_dir : BOOLEAN, size : {0, 3}]
ObjectWalkNodes == [exists : {TRUE}, hash : CompareKeys, type : {"Blob", "Tree"}]
CompareNodes ==
    {n \in [path : FileWalkNodes \cup {NoPath}, obj : ObjectWalkNodes \cup {NoObj}] :
        n.path.exists \/ n.obj.exists}

\* FsObjComparePlanBuilder::status: the match arms in the order of the code
StatusIgnoredFirst(node) ==
    LET path_exists == node.path.exists
        obj_exists == node.obj.exists
        path_hash == IF path_exists THEN node.path.hash ELSE NoKey
        path_is_ignored == IF path_exists THEN node.path.ignored ELSE TRUE
        obj_hash == IF obj_exists THEN node.obj.hash ELSE NoKey IN
    IF path_exists /\ path_is_ignored THEN "Ignored"
    ELSE IF path_exists /\ obj_exists /\ path_hash # NoKey /\ path_hash = obj_hash
    THEN "Unchanged"
    ELSE IF path_exists /\ obj_exists /\ path_hash # NoKey THEN "Modified"
    ELSE IF path_exists /\ obj_exists THEN "MaybeModified"
    ELSE IF path_exists THEN "Untracked"
    ELSE IF obj_exists THEN "Offline"
    ELSE "unreachable"
Status(node) ==
    LET path_exists == node.path.exists
        obj_exists == node.obj.exists
        path_hash == IF path_exists THEN node.path.hash ELSE NoKey
        path_is_ignored == IF path_exists THEN node.path.ignored ELSE TRUE
        obj_hash == IF obj_exists THEN node.obj.hash ELSE NoKey IN
    IF path_exists /\ obj_exists /\ path_hash # NoKey /\ obj_hash # NoKey
       /\ path_hash = obj_hash
    THEN "Unchanged"
    ELSE IF path_exists /\ obj_exists /\ path_hash # NoKey /\ obj_hash # NoKey
    THEN "Modified"
    ELSE IF path_exists /\ obj_exists THEN "MaybeModified"
    ELSE IF path_exists /\ ~obj_exists /\ path_is_ignored THEN "Ignored"
    ELSE IF path_exists /\ ~obj_exists THEN "Untracked"
    ELSE IF ~path_exists /\ obj_exists THEN "Offline"
    ELSE "unreachable"

\* WalkOp::no_descend: the HashPlan of a node without children
NoPlan == [status |-> "none"]
HashPlanOf(node) ==
    IF node.path.exists
    THEN [status |-> Status(node), is_dir |-> node.path.is_dir,
          hash |-> node.path.hash, size |-> node.path.size]
    ELSE [status |-> Status(node), is_dir |-> FALSE,
          hash |-> node.obj.hash, size |-> 0]

VARIABLES cmp_node,     \* the CompareNode the walker is at
          cmp_status,   \* what status(node) returned, or "none"
          cmp_plan      \* what no_descend(node) returned, or NoPlan

compareVars == <<cmp_node, cmp_status, cmp_plan>>

\* FsObjComparePlanBuilder::status(&node)
CompareStatus ==
    /\ cmp_status = "none"
    /\ cmp_status' = Status(cmp_node)
    /\ UNCHANGED <<cmp_node, cmp_plan>>

\* FsObjComparePlanBuilder::no_descend(ps, node)
CompareNoDescend ==
    /\ cmp_plan = NoPlan
    /\ cmp_plan' = HashPlanOf(cmp_node)
    /\ UNCHANGED <<cmp_node, cmp_status>>

\* ---------------------------------------------------------- entries of a Tree
\* A Tree is a BTreeMap from name to hash.  Names are byte strings, ordered as
\* OsString orders them (byte by byte, a prefix first); the map is the sequence
\* of its entries in the order iteration yields them.
MaxInserts == 3
TreeNames == {<<1>>, <<2>>, <<1, 1>>, <<1, 2>>, <<2, 1>>}
TreeKeys == {7, 8}
TreeEntrySeparator == 10

\* Ord for OsString
NameLess(a, b) ==
    \E k \in 0..Len(a) :
       /\ k <= Len(b)
       /\ \A i \in 1..k : a[i] = b[i]
       /\ \/ k = Len(a) /\ k < Len(b)
          \/ k < Len(a) /\ k < Len(b) /\ a[k + 1] < b[k + 1]

\* BTreeMap::insert: replaces the value of a key that is there, and puts a new
\* key at its place in the order
PathKeyMapInsertAppend(map, name, hash) == Append(map, [name |-> name, hash |-> hash])
PathKeyMapInsert(map, name, hash) ==
    IF \E i \in DOMAIN map : map[i].name = name
    THEN [i \in DOMAIN map |-> IF map[i].name = name
                               THEN [name |-> name, hash |-> hash] ELSE map[i]]
    ELSE LET k == Cardinality({i \in DOMAIN map : NameLess(map[i].name, name)}) IN
         SubSeq(map, 1, k) \o <<[name |-> name, hash |-> hash]>>
            \o SubSeq(map, k + 1, Len(map))

\* Tree::write_content: for each entry the hash, the name, the separator
RECURSIVE TreeWriteContent(_)
TreeWriteContent(map) ==
    IF map = <<>> THEN <<>>
    ELSE <<map[1].hash>> \o map[1].name \o <<TreeEntrySeparator>>
            \o TreeWriteContent(Tail(map))

\* Tree::read_content: the entries in the order they are read: a hash of
\* KEY_SIZE_BYTES (here one), then read_until the separator, which stops at the
\* end of the content when there is none; pop drops the last byte read
RECURSIVE ReadEntries(_)
ReadEntries(bytes) ==
    IF bytes = <<>> THEN <<>>
    ELSE LET rest == Tail(bytes)
             seps == {i \in 1..Len(rest) : rest[i] = TreeEntrySeparator}
             n == IF seps = {} THEN Len(rest)
                  ELSE CHOOSE i \in seps : \A j \in seps : i <= j IN
         <<[name |-> SubSeq(rest, 1, n - 1), hash |-> bytes[1]]>>
            \o ReadEntries(SubSeq(rest, n + 1, Len(rest)))

NoContent == <<-1>>

VARIABLES tr_map,       \* the Tree's map, as the sequence iteration yields
          tr_inserts,   \* the inserts made so far, in order
          tr_content    \* the bytes write_content wrote, or NoContent

treeVars == <<tr_map, tr_inserts, tr_content>>

\* Tree::insert(name, hash)
TreeInsertEntry(name, hash) ==
    /\ tr_content = NoContent
    /\ Len(tr_inserts) < MaxInserts
    /\ tr_map' = PathKeyMapInsert(tr_map, name, hash)
    /\ tr_inserts' = Append(tr_inserts, [name |-> name, hash |-> hash])
    /\ UNCHANGED tr_content

\* Tree::write_content(writer)
TreeWrite ==
    /\ tr_content = NoContent
    /\ tr_content' = TreeWriteContent(tr_map)
    /\ UNCHANGED <<tr_map, tr_inserts>>

\* ------------------------------------------------ objects written and read
\* An object is built (Blob::from_vec, Tree::insert, or the Tree the ingest
\* walk makes of a directory's names), written with its header, and read back
\* from the bytes written.  Names are byte strings: TreeEntrySeparator is the
\* byte 0x0A, 0 the byte 0x00, and a byte of 128 or more is not UTF-8 here.
ObjectTypeTree == 3
ObjectNames == {<< >>, <<1>>, <<2>>, <<0>>, <<1, 10>>, <<1, 10, 2>>, <<255>>}
\* the names read_dir can yield: not empty, without 0x00
DirEntryNames == {n \in ObjectNames : n # << >> /\ \A i \in DOMAIN n : n[i] # 0}

\* OsStr::to_str / String::from_utf8 / OsString::into_string succeed
IsUtf8(name) == \A i \in DOMAIN name : name[i] < 128

\* Tree::content_size: KEY_SIZE_BYTES (here one), the name and the separator
\* for each entry
RECURSIVE TreeContentSize(_)
TreeContentSize(map) ==
    IF map = <<>> THEN 0
    ELSE 1 + Len(map[1].name) + 1 + TreeContentSize(Tail(map))

\* write_content ends in a panic: to_str().unwrap() on a name that is not UTF-8
WritePanic == <<-2>>

\* Object::write_to: the header (object_type, content_size), then the content
ObjectWriteTo(obj) ==
    IF obj.type = "Blob" THEN SerializeBlob(obj.content)
    ELSE IF \E i \in DOMAIN obj.map : ~IsUtf8(obj.map[i].name) THEN WritePanic
    ELSE <<ObjectTypeTree, TreeContentSize(obj.map)>> \o TreeWriteContent(obj.map)

\* the Tree that read_content builds: each entry read is inserted into a new
\* Tree; a name that is not UTF-8 ends the read with an error
RECURSIVE InsertAll(_, _)
InsertAll(map, entries) ==
    IF entries = <<>> THEN map
    ELSE InsertAll(PathKeyMapInsert(map, entries[1].name, entries[1].hash),
                   Tail(entries))

TreeReadContent(bytes) ==
    LET es == ReadEntries(bytes) IN
    IF \E i \in DOMAIN es : ~IsUtf8(es[i].name)
    THEN [ok |-> FALSE, map |-> <<>>]
    ELSE [ok |-> TRUE, map |-> InsertAll(<<>>, es)]

\* the children of a directory as entries, each with the hash of its object
RECURSIVE EntriesOf(_, _)
EntriesOf(names, hash) ==
    IF names = {} THEN <<>>
    ELSE LET n == CHOOSE x \in names : TRUE IN
         <<[name |-> n, hash |-> hash]>> \o EntriesOf(names \ {n}, hash)

NotRead == [done |-> FALSE]
\* ObjectHeader::read_from, then Blob::read_from or Tree::read_content on the
\* same reader
ObjectRead(bytes) ==
    LET object_type == bytes[1]
        content == SubSeq(bytes, 3, Len(bytes))
        tree == TreeReadContent(content) IN
    [done |-> TRUE,
     ok |-> object_type = ObjectTypeBlob \/ tree.ok,
     header |-> [object_type |-> object_type, content_size |-> bytes[2]],
     content_len |-> Len(content),
     obj |-> IF object_type = ObjectTypeBlob
             THEN [type |-> "Blob", content |-> content, map |-> <<>>]
             ELSE [type |-> "Tree", content |-> <<>>, map |-> tree.map]]

VARIABLES ob_obj,     \* the object: a Blob's content or a Tree's map
          ob_via,     \* how it was built: "new", "insert", "ingest", "error"
          ob_bytes,   \* the bytes write_to wrote, NoContent or WritePanic
          ob_read     \* what reading those bytes gave, or NotRead

objVars == <<ob_obj, ob_via, ob_bytes, ob_read>>

\* Tree::insert(name, hash) for any name
ObInsert(name, hash) ==
    /\ ob_obj.type = "Tree"
    /\ ob_via \in {"new", "insert"}
    /\ ob_bytes = NoContent
    /\ Len(ob_obj.map) < MaxInserts
    /\ ob_obj' = [ob_obj EXCEPT !.map = PathKeyMapInsert(@, name, hash)]
    /\ ob_via' = "insert"
    /\ UNCHANGED <<ob_bytes, ob_read>>

\* the Tree of a directory with these entry names: read_children gives up at a
\* name that is not UTF-8, and post_descend inserts every other child by name
ObIngest(names, hash) ==
    /\ ob_obj.type = "Tree"
    /\ ob_via = "new"
    /\ ob_bytes = NoContent
    /\ IF \E n \in names : ~IsUtf8(n)
       THEN /\ ob_via' = "error"
            /\ UNCHANGED ob_obj
       ELSE /\ ob_via' = "ingest"
            /\ ob_obj' = [ob_obj EXCEPT !.map =
                  InsertAll(<<>>, EntriesOf(names, hash))]
    /\ UNCHANGED <<ob_bytes, ob_read>>

\* Object::write_to(writer)
ObWrite ==
    /\ ob_bytes = NoContent
    /\ ob_via # "error"
    /\ ob_bytes' = ObjectWriteTo(ob_obj)
    /\ UNCHANGED <<ob_obj, ob_via, ob_read>>

\* ObjectHeader::read_from and read_content on the bytes written
ObRead ==
    /\ ob_bytes # NoContent
    /\ ob_bytes # WritePanic
    /\ ob_read = NotRead
    /\ ob_read' = ObjectRead(ob_bytes)
    /\ UNCHANGED <<ob_obj, ob_via, ob_bytes>>

\* ------------------------------------------------ copying a file object out
\* copy_blob_content on a store that holds the object asked for, with or
\* without the objects it refers to.
CopyContents == {<< >>, <<0>>, <<0, 1, 0>>, <<1, 1, 0>>}
\* a ChunkedBlob whose first chunk is itself a ChunkedBlob
NestedChunkedBlob ==
    AddChunk(AddChunk(NewChunkedBlob, 3, LastHash(ReadFileObjects(<<0, 1, 0>>))),
             1, ObjectHash(Blob(<<1>>)))
CopyHashes ==
    {LastHash(ReadFileObjects(c)) : c \in CopyContents}
       \cup {ObjectHash(NestedChunkedBlob)}
CopyObjects ==
    UNION {{ReadFileObjects(c)[i] : i \in DOMAIN ReadFileObjects(c)} : c \in CopyContents}
       \cup {NestedChunkedBlob}

NotCopied == [done |-> FALSE]

VARIABLES cp_objects,   \* the objects the store holds
          cp_hash,      \* the hash copy_blob_content is called with
          cp_out        \* what the call wrote and returned, or NotCopied

copyVars == <<cp_objects, cp_hash, cp_out>>

\* copy_blob_content(cp_hash, writer) on an empty writer
CopyContent ==
    /\ cp_out = NotCopied
    /\ cp_out' = [done |-> TRUE] @@ CopyBlobContent(cp_objects, cp_hash)
    /\ UNCHANGED <<cp_objects, cp_hash>>

\* ------------------------------------------------- dropping the stat caches
\* AllCaches keeps one HashCacheFile per directory it was asked about; each
\* remembers the state its file had when it was loaded or last written.  The
\* entries are kept by path here, so the HashCacheFile of a directory has
\* unwritten changes when an entry of a path in it differs from that state.
ParentDir(p) == SubSeq(p, 1, Len(p) - 1)
\* X and D lie in directories that nothing here removes
IsDirectory(fs, d) == d \notin TPaths \/ fs[d].kind = "dir"
Unwritten(cache, on_disk) == {ParentDir(p) : p \in {q \in TPaths : cache[q] # on_disk[q]}}

\* HashCacheFile::flush of the cache of directory d: nothing to do when the
\* map is as on disk; else the cache file is opened with create inside d
HashCacheFileFlushOk(fs, cache, on_disk, d) ==
    d \in Unwritten(cache, on_disk) => IsDirectory(fs, d)

NotFlushed == [done |-> FALSE, ok |-> TRUE]

VARIABLES fl_on_disk,   \* path -> the entry its directory's cache file held
                        \* when loaded or last written
          fl_result     \* the outcome of dropping the caches, or NotFlushed

flushVars == <<fl_on_disk, fl_result>>

\* hash_file of a file at or below X, through the engine's caches
HashFileBelow ==
    /\ fl_result = NotFlushed
    /\ \E p \in {DestRoot, DestRoot \o <<"f">>, DestRoot \o <<"e", "f">>} :
          HashFileOn(p, {"start", "file_extracted"})
    /\ UNCHANGED flushVars

\* extract_object of a file object onto X, through the same caches
ExtractFileBefore ==
    /\ fl_result = NotFlushed
    /\ ExtractFileOnto({"start", "file_extracted"})
    /\ UNCHANGED flushVars

\* AllCaches::flush, or the drop of the engine: directory_caches.clear() drops
\* every HashCacheFile, and each drop is flush().expect("Could not flush hash
\* file")
DropAllCaches ==
    /\ fl_result = NotFlushed
    /\ fl_result' = [done |-> TRUE,
                     ok |-> \A d \in Unwritten(t_cache, fl_on_disk) :
                               HashCacheFileFlushOk(t_fs, t_cache, fl_on_disk, d)]
    /\ fl_on_disk' = [p \in TPaths |->
                        IF IsDirectory(t_fs, ParentDir(p)) THEN t_cache[p]
                        ELSE fl_on_disk[p]]
    /\ UNCHANGED transferVars

\* --------------------------------------- hash_file while the file is written
\* hash_file on one file, step by step: the file is opened and its metadata
\* read, its content is read and stored, the cache entry is inserted; another
\* program may write the file between any two steps.
RaceFile == "a"
MaxRaceWrites == 2     \* writes by the other program

\* the stats hash_file hands to cache.insert: those read at the open
StatsToCacheAtInsert(at_open, file) == StatsOf(file)
StatsToCache(at_open, file) == at_open

VARIABLES rc_file,     \* [content, mtime] of the file
          rc_cache,    \* the cache of the file's directory
          rc_store,    \* the objects held by the object store
          rc_pc,       \* "idle", "opened", "read", "returned" (from the cache), "inserted"
          rc_stats,    \* the stats hash_file read when it opened the file
          rc_read,     \* the content hash_file read
          rc_hash,     \* the hash the latest hash_file returned
          rc_torn,     \* the file was written after the open and before the read ended
          rc_raced,    \* the file was written between the open and the insert
          rc_since,    \* the file was written since the latest hash_file ended
          rc_writes    \* writes so far

raceVars == <<rc_file, rc_cache, rc_store, rc_pc, rc_stats, rc_read, rc_hash, rc_torn,
              rc_raced, rc_since, rc_writes>>

\* File::open, file.metadata(), and the cache check with these stats, which
\* ends the call when it answers Cached
RaceOpen ==
    LET stats == StatsOf(rc_file)
        status == HashCacheCheck(rc_cache, RaceFile, stats) IN
    /\ rc_pc \in {"idle", "returned", "inserted"}
    /\ rc_stats' = stats
    /\ IF status.status = "Cached"
       THEN rc_pc' = "returned" /\ rc_hash' = status.hash
       ELSE rc_pc' = "opened" /\ rc_hash' = rc_hash
    /\ rc_torn' = FALSE
    /\ rc_raced' = FALSE
    /\ rc_since' = FALSE
    /\ UNCHANGED <<rc_file, rc_cache, rc_store, rc_read, rc_writes>>

\* read_file_objects and store_object of every object: the bytes read are the
\* file's, or any mix when the file was written while it was read
RaceRead ==
    /\ rc_pc = "opened"
    /\ \E c \in (IF rc_torn THEN FileContents ELSE {rc_file.content}) :
          /\ rc_read' = c
          /\ rc_store' = rc_store \cup {ReadFileObjects(c)[i] :
                                           i \in DOMAIN ReadFileObjects(c)}
    /\ rc_pc' = "read"
    /\ UNCHANGED <<rc_file, rc_cache, rc_stats, rc_hash, rc_torn, rc_raced, rc_since,
                   rc_writes>>

\* cache.insert(file_path, stats, last_hash) and the return of last_hash
RaceInsert ==
    LET last_hash == LastHash(ReadFileObjects(rc_read)) IN
    /\ rc_pc = "read"
    /\ rc_cache' = InsertEntryMap(rc_cache, RaceFile, StatsToCache(rc_stats, rc_file),
                                  last_hash)
    /\ rc_hash' = last_hash
    /\ rc_pc' = "inserted"
    /\ UNCHANGED <<rc_file, rc_store, rc_stats, rc_read, rc_torn, rc_raced, rc_since,
                   rc_writes>>

\* another program writes the file; it may keep the size and may keep or set
\* back the modification time
RaceModify ==
    /\ rc_writes < MaxRaceWrites
    /\ \E c \in FileContents, t \in 0..MaxMtime :
          /\ c # rc_file.content \/ t # rc_file.mtime
          /\ rc_file' = [content |-> c, mtime |-> t]
    /\ rc_torn' = (rc_torn \/ rc_pc = "opened")
    /\ rc_raced' = (rc_raced \/ rc_pc \in {"opened", "read"})
    /\ rc_since' = (rc_since \/ rc_pc \in {"returned", "inserted"})
    /\ rc_writes' = rc_writes + 1
    /\ UNCHANGED <<rc_cache, rc_store, rc_pc, rc_stats, rc_read, rc_hash>>

\* ------------------------------------------------------------ PartialTree
\* A PartialTree maps names to HashedOrNot values: Hashed(hash),
\* UnhashedFile(size) or Dir(PartialTree).
NewPartialTree == [n \in {} |-> NoKey]
Hashed(hash) == [kind |-> "Hashed", hash |-> hash]
UnhashedFile(size) == [kind |-> "UnhashedFile", size |-> size]
Dir(partial) == [kind |-> "Dir", partial |-> partial]

\* PartialTree::insert
PartialTreeInsertKeepsEmptyDir(partial, path, st) ==
    [n \in DOMAIN partial \cup {path} |-> IF n = path THEN st ELSE partial[n]]
PartialTreeInsert(partial, path, st) ==
    IF st.kind = "Dir" /\ DOMAIN st.partial = {} THEN partial
    ELSE [n \in DOMAIN partial \cup {path} |-> IF n = path THEN st ELSE partial[n]]

\* PartialTree::unhashed: the children that are not Hashed
Unhashed(partial) == {n \in DOMAIN partial : partial[n].kind # "Hashed"}

\* PartialTree::unhashed_size and HashedOrNot::unhashed_size
RECURSIVE UnhashedSizeFrom(_, _)
HashedOrNotUnhashedSize(st) ==
    IF st.kind = "Hashed" THEN 0
    ELSE IF st.kind = "UnhashedFile" THEN st.size
    ELSE UnhashedSizeFrom(st.partial, 1)
UnhashedSizeFrom(partial, i) ==
    IF i > Len(NameSeq) THEN 0
    ELSE (IF NameSeq[i] \in Unhashed(partial)
          THEN HashedOrNotUnhashedSize(partial[NameSeq[i]]) ELSE 0)
         + UnhashedSizeFrom(partial, i + 1)
PartialTreeUnhashedSize(partial) == UnhashedSizeFrom(partial, 1)

\* PartialTree::is_complete
IsComplete(partial) == Unhashed(partial) = {}

\* the hashes, sizes and subtrees the calls below insert
PartialHashes == {ObjectHash(Blob(<<0>>)), ObjectHash(Blob(<<1>>))}
PartialSizes == {1, 2}
PartialSubtrees ==
    {NewPartialTree,
     PartialTreeInsert(NewPartialTree, "a", Hashed(ObjectHash(Blob(<<0>>)))),
     PartialTreeInsert(NewPartialTree, "a", UnhashedFile(2)),
     PartialTreeInsert(PartialTreeInsert(NewPartialTree, "a",
                                         Hashed(ObjectHash(Blob(<<0>>)))),
                       "b", UnhashedFile(1)),
     PartialTreeInsert(NewPartialTree, "a",
                       Dir(PartialTreeInsert(NewPartialTree, "b", UnhashedFile(2)))),
     PartialTreeInsert(NewPartialTree, "a",
                       Dir(PartialTreeInsert(NewPartialTree, "b",
                                             Hashed(ObjectHash(Blob(<<1>>))))))}
PartialValues ==
    {Hashed(h) : h \in PartialHashes} \cup {UnhashedFile(s) : s \in PartialSizes}
       \cup {Dir(p) : p \in PartialSubtrees}
MaxPartialInserts == 3    \* calls of insert on one PartialTree

NoPartialCall == [op |-> "none", name |-> "", st |-> Hashed(ZeroHash),
                  before |-> NewPartialTree]

VARIABLES pt_partial,   \* the PartialTree
          pt_inserts,   \* calls of insert so far
          pt_last       \* the latest call, its arguments and the PartialTree before it

partialVars == <<pt_partial, pt_inserts, pt_last>>

\* partial.insert(name, st)
PartialInsert ==
    /\ pt_inserts < MaxPartialInserts
    /\ \E name \in {NameSeq[i] : i \in DOMAIN NameSeq}, st \in PartialValues :
          /\ pt_partial' = PartialTreeInsert(pt_partial, name, st)
          /\ pt_last' = [op |-> "insert", name |-> name, st |-> st,
                         before |-> pt_partial]
    /\ pt_inserts' = pt_inserts + 1

\* the loop of hash_partial_tree: every unhashed child is given the hash that
\* hash_file or the recursion returned
RECURSIVE InsertHashes(_, _, _)
InsertHashes(partial, hashes, i) ==
    IF i > Len(NameSeq) THEN partial
    ELSE IF NameSeq[i] \in DOMAIN hashes
    THEN InsertHashes(PartialTreeInsert(partial, NameSeq[i], Hashed(hashes[NameSeq[i]])),
                      hashes, i + 1)
    ELSE InsertHashes(partial, hashes, i + 1)
HashUnhashedChildren ==
    /\ pt_last.op # "hash_children"
    /\ \E hashes \in [Unhashed(pt_partial) -> PartialHashes] :
          pt_partial' = InsertHashes(pt_partial, hashes, 1)
    /\ pt_last' = [op |-> "hash_children", name |-> "", st |-> Hashed(ZeroHash),
                   before |-> pt_partial]
    /\ UNCHANGED pt_inserts

\* ------------------------------------------------------------ specifications
vars == <<diskVars, cacheVars, checkVars, ingestVars, transferVars, compareVars,
         treeVars, objVars,
         copyVars,
         flushVars,
         raceVars,
         partialVars>>

\* an initialised repository with no object (DiskRepository::init); nothing else runs
InitDisk ==
    /\ tmp_file = NoFile
    /\ object_files = <<>>
    /\ object_dirs = {}
    /\ incoming = 0
    /\ pc = "idle"
    /\ cur_obj = <<>>
    /\ stores = 0
    /\ files_at_start = <<>>
    /\ returned = 0
    /\ cache_file = NoCacheFile
    /\ hc_open = FALSE
    /\ hc_cache = EmptyCache
    /\ hc_on_disk_state = {}
    /\ latest = EmptyCache
    /\ writes = 0
    /\ chk_cache = EmptyCache
    /\ chk_name = "a"
    /\ chk_stats = [size |-> 0, mtime |-> 0]
    /\ chk_result = NoResult
    /\ fs_files = [n \in FileNames |-> [content |-> <<>>, mtime |-> 0]]
    /\ store = {}
    /\ all_caches = EmptyCache
    /\ op = NoOp
    /\ plan = <<>>
    /\ op_log = <<>>
    /\ op_cached = {}
    /\ wd_parents = <<>>
    /\ branch_ref = ZeroHash
    /\ wd_state_file = NoStateFile
    /\ wd_branch = DefaultBranch
    /\ commit_log = <<>>
    /\ modified_since = [n \in FileNames |-> FALSE]
    /\ commits = 0
    /\ modifies = 0
    /\ dir_cache_files = [d \in Dirs |-> NoCacheFile]
    /\ dir_loaded = [d \in Dirs |-> FALSE]
    /\ dir_on_disk_state = [d \in Dirs |-> {}]
    /\ ac_result = NoAcResult
    /\ interrupted = [f \in FileNames |-> ZeroHash]
    /\ t_engine = "FsTransfer"
    /\ t_store_root = <<"R">>
    /\ t_ignored = {}
    /\ t_fs = NoFs
    /\ t_cache = NoTCache
    /\ t_store = {}
    /\ t_phase = "start"
    /\ t_src_hash = ZeroHash
    /\ t_src_fs = NoFs
    /\ t_failed = FALSE
    /\ t_stale = {}
    /\ t_pre_fs = NoFs
    /\ t_pre_cache = NoTCache
    /\ t_ok = TRUE
    /\ t_dest_hash = ZeroHash
    /\ t_hash = ZeroHash
    /\ t_err = NoError
    /\ t_parents = <<>>
    /\ t_commit_log = <<>>
    /\ cmp_node = [path |-> NoPath, obj |-> NoObj]
    /\ cmp_status = "none"
    /\ cmp_plan = NoPlan
    /\ tr_map = <<>>
    /\ tr_inserts = <<>>
    /\ tr_content = NoContent
    /\ ob_obj = [type |-> "Tree", content |-> <<>>, map |-> <<>>]
    /\ ob_via = "new"
    /\ ob_bytes = NoContent
    /\ ob_read = NotRead
    /\ cp_objects = {}
    /\ cp_hash = ZeroHash
    /\ cp_out = NotCopied
    /\ fl_on_disk = <<>>
    /\ fl_result = NotFlushed
    /\ rc_file = [content |-> <<>>, mtime |-> 0]
    /\ rc_cache = EmptyCache
    /\ rc_store = {}
    /\ rc_pc = "idle"
    /\ rc_stats = NoStats
    /\ rc_read = <<>>
    /\ rc_hash = ZeroHash
    /\ rc_torn = FALSE
    /\ rc_raced = FALSE
    /\ rc_since = FALSE
    /\ rc_writes = 0
    /\ pt_partial = NewPartialTree
    /\ pt_inserts = 0
    /\ pt_last = NoPartialCall

DiskNext ==
    \/ (\E content \in Contents : AddObject(content))
         /\ UNCHANGED <<cacheVars, checkVars, ingestVars, transferVars, compareVars, treeVars,
                        objVars, copyVars, flushVars,
                        raceVars, partialVars>>
    \/ WriteByte
         /\ UNCHANGED <<cacheVars, checkVars, ingestVars, transferVars, compareVars, treeVars,
                        objVars, copyVars, flushVars,
                        raceVars, partialVars>>
    \/ SetKeyCreateDirs
         /\ UNCHANGED <<cacheVars, checkVars, ingestVars, transferVars, compareVars, treeVars,
                        objVars, copyVars, flushVars,
                        raceVars, partialVars>>
    \/ SetKeyRename
         /\ UNCHANGED <<cacheVars, checkVars, ingestVars, transferVars, compareVars, treeVars,
                        objVars, copyVars, flushVars,
                        raceVars, partialVars>>
    \/ Abandon
         /\ UNCHANGED <<cacheVars, checkVars, ingestVars, transferVars, compareVars, treeVars,
                        objVars, copyVars, flushVars,
                        raceVars, partialVars>>

SpecDisk == InitDisk /\ [][DiskNext]_vars

\* a directory with no cache file and no HashCacheFile open; nothing else runs
InitCache ==
    /\ tmp_file = NoFile
    /\ object_files = <<>>
    /\ object_dirs = {}
    /\ incoming = 0
    /\ pc = "idle"
    /\ cur_obj = <<>>
    /\ stores = 0
    /\ files_at_start = <<>>
    /\ returned = 0
    /\ cache_file = NoCacheFile
    /\ hc_open = FALSE
    /\ hc_cache = EmptyCache
    /\ hc_on_disk_state = {}
    /\ latest = EmptyCache
    /\ writes = 0
    /\ chk_cache = EmptyCache
    /\ chk_name = "a"
    /\ chk_stats = [size |-> 0, mtime |-> 0]
    /\ chk_result = NoResult
    /\ fs_files = [n \in FileNames |-> [content |-> <<>>, mtime |-> 0]]
    /\ store = {}
    /\ all_caches = EmptyCache
    /\ op = NoOp
    /\ plan = <<>>
    /\ op_log = <<>>
    /\ op_cached = {}
    /\ wd_parents = <<>>
    /\ branch_ref = ZeroHash
    /\ wd_state_file = NoStateFile
    /\ wd_branch = DefaultBranch
    /\ commit_log = <<>>
    /\ modified_since = [n \in FileNames |-> FALSE]
    /\ commits = 0
    /\ modifies = 0
    /\ dir_cache_files = [d \in Dirs |-> NoCacheFile]
    /\ dir_loaded = [d \in Dirs |-> FALSE]
    /\ dir_on_disk_state = [d \in Dirs |-> {}]
    /\ ac_result = NoAcResult
    /\ interrupted = [f \in FileNames |-> ZeroHash]
    /\ t_engine = "FsTransfer"
    /\ t_store_root = <<"R">>
    /\ t_ignored = {}
    /\ t_fs = NoFs
    /\ t_cache = NoTCache
    /\ t_store = {}
    /\ t_phase = "start"
    /\ t_src_hash = ZeroHash
    /\ t_src_fs = NoFs
    /\ t_failed = FALSE
    /\ t_stale = {}
    /\ t_pre_fs = NoFs
    /\ t_pre_cache = NoTCache
    /\ t_ok = TRUE
    /\ t_dest_hash = ZeroHash
    /\ t_hash = ZeroHash
    /\ t_err = NoError
    /\ t_parents = <<>>
    /\ t_commit_log = <<>>
    /\ cmp_node = [path |-> NoPath, obj |-> NoObj]
    /\ cmp_status = "none"
    /\ cmp_plan = NoPlan
    /\ tr_map = <<>>
    /\ tr_inserts = <<>>
    /\ tr_content = NoContent
    /\ ob_obj = [type |-> "Tree", content |-> <<>>, map |-> <<>>]
    /\ ob_via = "new"
    /\ ob_bytes = NoContent
    /\ ob_read = NotRead
    /\ cp_objects = {}
    /\ cp_hash = ZeroHash
    /\ cp_out = NotCopied
    /\ fl_on_disk = <<>>
    /\ fl_result = NotFlushed
    /\ rc_file = [content |-> <<>>, mtime |-> 0]
    /\ rc_cache = EmptyCache
    /\ rc_store = {}
    /\ rc_pc = "idle"
    /\ rc_stats = NoStats
    /\ rc_read = <<>>
    /\ rc_hash = ZeroHash
    /\ rc_torn = FALSE
    /\ rc_raced = FALSE
    /\ rc_since = FALSE
    /\ rc_writes = 0
    /\ pt_partial = NewPartialTree
    /\ pt_inserts = 0
    /\ pt_last = NoPartialCall

CacheNext ==
    \/ HashCacheFileOpen
         /\ UNCHANGED <<diskVars, checkVars, ingestVars, transferVars, compareVars, treeVars,
                        objVars, copyVars, flushVars,
                        raceVars, partialVars>>
    \/ (\E n \in FileNames, st \in FileStatsSet, h \in CacheKeys : InsertEntry(n, st, h))
         /\ UNCHANGED <<diskVars, checkVars, ingestVars, transferVars, compareVars, treeVars,
                        objVars, copyVars, flushVars,
                        raceVars, partialVars>>
    \/ HashCacheFileFlush
         /\ UNCHANGED <<diskVars, checkVars, ingestVars, transferVars, compareVars, treeVars,
                        objVars, copyVars, flushVars,
                        raceVars, partialVars>>
    \/ HashCacheFileDrop
         /\ UNCHANGED <<diskVars, checkVars, ingestVars, transferVars, compareVars, treeVars,
                        objVars, copyVars, flushVars,
                        raceVars, partialVars>>

SpecCache == InitCache /\ [][CacheNext]_vars

\* any cache map, file name and current stats, before check is called
InitCheck ==
    /\ tmp_file = NoFile
    /\ object_files = <<>>
    /\ object_dirs = {}
    /\ incoming = 0
    /\ pc = "idle"
    /\ cur_obj = <<>>
    /\ stores = 0
    /\ files_at_start = <<>>
    /\ returned = 0
    /\ cache_file = NoCacheFile
    /\ hc_open = FALSE
    /\ hc_cache = EmptyCache
    /\ hc_on_disk_state = {}
    /\ latest = EmptyCache
    /\ writes = 0
    /\ chk_cache \in CacheMaps
    /\ chk_name \in FileNames
    /\ chk_stats \in FileStatsSet
    /\ chk_result = NoResult
    /\ fs_files = [n \in FileNames |-> [content |-> <<>>, mtime |-> 0]]
    /\ store = {}
    /\ all_caches = EmptyCache
    /\ op = NoOp
    /\ plan = <<>>
    /\ op_log = <<>>
    /\ op_cached = {}
    /\ wd_parents = <<>>
    /\ branch_ref = ZeroHash
    /\ wd_state_file = NoStateFile
    /\ wd_branch = DefaultBranch
    /\ commit_log = <<>>
    /\ modified_since = [n \in FileNames |-> FALSE]
    /\ commits = 0
    /\ modifies = 0
    /\ dir_cache_files = [d \in Dirs |-> NoCacheFile]
    /\ dir_loaded = [d \in Dirs |-> FALSE]
    /\ dir_on_disk_state = [d \in Dirs |-> {}]
    /\ ac_result = NoAcResult
    /\ interrupted = [f \in FileNames |-> ZeroHash]
    /\ t_engine = "FsTransfer"
    /\ t_store_root = <<"R">>
    /\ t_ignored = {}
    /\ t_fs = NoFs
    /\ t_cache = NoTCache
    /\ t_store = {}
    /\ t_phase = "start"
    /\ t_src_hash = ZeroHash
    /\ t_src_fs = NoFs
    /\ t_failed = FALSE
    /\ t_stale = {}
    /\ t_pre_fs = NoFs
    /\ t_pre_cache = NoTCache
    /\ t_ok = TRUE
    /\ t_dest_hash = ZeroHash
    /\ t_hash = ZeroHash
    /\ t_err = NoError
    /\ t_parents = <<>>
    /\ t_commit_log = <<>>
    /\ cmp_node = [path |-> NoPath, obj |-> NoObj]
    /\ cmp_status = "none"
    /\ cmp_plan = NoPlan
    /\ tr_map = <<>>
    /\ tr_inserts = <<>>
    /\ tr_content = NoContent
    /\ ob_obj = [type |-> "Tree", content |-> <<>>, map |-> <<>>]
    /\ ob_via = "new"
    /\ ob_bytes = NoContent
    /\ ob_read = NotRead
    /\ cp_objects = {}
    /\ cp_hash = ZeroHash
    /\ cp_out = NotCopied
    /\ fl_on_disk = <<>>
    /\ fl_result = NotFlushed
    /\ rc_file = [content |-> <<>>, mtime |-> 0]
    /\ rc_cache = EmptyCache
    /\ rc_store = {}
    /\ rc_pc = "idle"
    /\ rc_stats = NoStats
    /\ rc_read = <<>>
    /\ rc_hash = ZeroHash
    /\ rc_torn = FALSE
    /\ rc_raced = FALSE
    /\ rc_since = FALSE
    /\ rc_writes = 0
    /\ pt_partial = NewPartialTree
    /\ pt_inserts = 0
    /\ pt_last = NoPartialCall

CheckNext == CheckWith /\ UNCHANGED <<diskVars, cacheVars, ingestVars, transferVars, compareVars, treeVars,
                        objVars, copyVars, flushVars,
                        raceVars, partialVars>>

SpecCheck == InitCheck /\ [][CheckNext]_vars

\* a work directory whose file a has any content, an empty object store and empty caches
InitHashFile ==
    /\ tmp_file = NoFile
    /\ object_files = <<>>
    /\ object_dirs = {}
    /\ incoming = 0
    /\ pc = "idle"
    /\ cur_obj = <<>>
    /\ stores = 0
    /\ files_at_start = <<>>
    /\ returned = 0
    /\ cache_file = NoCacheFile
    /\ hc_open = FALSE
    /\ hc_cache = EmptyCache
    /\ hc_on_disk_state = {}
    /\ latest = EmptyCache
    /\ writes = 0
    /\ chk_cache = EmptyCache
    /\ chk_name = "a"
    /\ chk_stats = [size |-> 0, mtime |-> 0]
    /\ chk_result = NoResult
    /\ fs_files \in {[n \in FileNames |-> [content |-> IF n = "a" THEN c ELSE <<>>, mtime |-> 0]] : c \in FileContents}
    /\ store = {}
    /\ all_caches = EmptyCache
    /\ op = NoOp
    /\ plan = <<>>
    /\ op_log = <<>>
    /\ op_cached = {}
    /\ wd_parents = <<>>
    /\ branch_ref = ZeroHash
    /\ wd_state_file = NoStateFile
    /\ wd_branch = DefaultBranch
    /\ commit_log = <<>>
    /\ modified_since = [n \in FileNames |-> FALSE]
    /\ commits = 0
    /\ modifies = 0
    /\ dir_cache_files = [d \in Dirs |-> NoCacheFile]
    /\ dir_loaded = [d \in Dirs |-> FALSE]
    /\ dir_on_disk_state = [d \in Dirs |-> {}]
    /\ ac_result = NoAcResult
    /\ interrupted = [f \in FileNames |-> ZeroHash]
    /\ t_engine = "FsTransfer"
    /\ t_store_root = <<"R">>
    /\ t_ignored = {}
    /\ t_fs = NoFs
    /\ t_cache = NoTCache
    /\ t_store = {}
    /\ t_phase = "start"
    /\ t_src_hash = ZeroHash
    /\ t_src_fs = NoFs
    /\ t_failed = FALSE
    /\ t_stale = {}
    /\ t_pre_fs = NoFs
    /\ t_pre_cache = NoTCache
    /\ t_ok = TRUE
    /\ t_dest_hash = ZeroHash
    /\ t_hash = ZeroHash
    /\ t_err = NoError
    /\ t_parents = <<>>
    /\ t_commit_log = <<>>
    /\ cmp_node = [path |-> NoPath, obj |-> NoObj]
    /\ cmp_status = "none"
    /\ cmp_plan = NoPlan
    /\ tr_map = <<>>
    /\ tr_inserts = <<>>
    /\ tr_content = NoContent
    /\ ob_obj = [type |-> "Tree", content |-> <<>>, map |-> <<>>]
    /\ ob_via = "new"
    /\ ob_bytes = NoContent
    /\ ob_read = NotRead
    /\ cp_objects = {}
    /\ cp_hash = ZeroHash
    /\ cp_out = NotCopied
    /\ fl_on_disk = <<>>
    /\ fl_result = NotFlushed
    /\ rc_file = [content |-> <<>>, mtime |-> 0]
    /\ rc_cache = EmptyCache
    /\ rc_store = {}
    /\ rc_pc = "idle"
    /\ rc_stats = NoStats
    /\ rc_read = <<>>
    /\ rc_hash = ZeroHash
    /\ rc_torn = FALSE
    /\ rc_raced = FALSE
    /\ rc_since = FALSE
    /\ rc_writes = 0
    /\ pt_partial = NewPartialTree
    /\ pt_inserts = 0
    /\ pt_last = NoPartialCall

HashFileNext ==
    \/ BeginHashFile("a")
         /\ UNCHANGED <<diskVars, cacheVars, checkVars, transferVars, compareVars, treeVars,
                        objVars, copyVars, flushVars,
                        raceVars, partialVars>>
    \/ BeginStoreFile("a")
         /\ UNCHANGED <<diskVars, cacheVars, checkVars, transferVars, compareVars, treeVars,
                        objVars, copyVars, flushVars,
                        raceVars, partialVars>>
    \/ StepStore
         /\ UNCHANGED <<diskVars, cacheVars, checkVars, transferVars, compareVars, treeVars,
                        objVars, copyVars, flushVars,
                        raceVars, partialVars>>
    \/ StepCacheInsert
         /\ UNCHANGED <<diskVars, cacheVars, checkVars, transferVars, compareVars, treeVars,
                        objVars, copyVars, flushVars,
                        raceVars, partialVars>>
    \/ FailStep
         /\ UNCHANGED <<diskVars, cacheVars, checkVars, transferVars, compareVars, treeVars,
                        objVars, copyVars, flushVars,
                        raceVars, partialVars>>
    \/ Finish
         /\ UNCHANGED <<diskVars, cacheVars, checkVars, transferVars, compareVars, treeVars,
                        objVars, copyVars, flushVars,
                        raceVars, partialVars>>
    \/ (\E c \in FileContents, t \in 0..MaxMtime : ModifyFile("a", c, t))
         /\ UNCHANGED <<diskVars, cacheVars, checkVars, transferVars, compareVars, treeVars,
                        objVars, copyVars, flushVars,
                        raceVars, partialVars>>

SpecHashFile == InitHashFile /\ [][HashFileNext]_vars

\* a work directory with any file contents, an empty object store and empty
\* caches, on the default branch with no state file or detached
InitIngest ==
    /\ tmp_file = NoFile
    /\ object_files = <<>>
    /\ object_dirs = {}
    /\ incoming = 0
    /\ pc = "idle"
    /\ cur_obj = <<>>
    /\ stores = 0
    /\ files_at_start = <<>>
    /\ returned = 0
    /\ cache_file = NoCacheFile
    /\ hc_open = FALSE
    /\ hc_cache = EmptyCache
    /\ hc_on_disk_state = {}
    /\ latest = EmptyCache
    /\ writes = 0
    /\ chk_cache = EmptyCache
    /\ chk_name = "a"
    /\ chk_stats = [size |-> 0, mtime |-> 0]
    /\ chk_result = NoResult
    /\ fs_files \in [FileNames -> [content : FileContents, mtime : {0}]]
    /\ store = {}
    /\ all_caches = EmptyCache
    /\ op = NoOp
    /\ plan = <<>>
    /\ op_log = <<>>
    /\ op_cached = {}
    /\ wd_parents = <<>>
    /\ branch_ref = ZeroHash
    /\ wd_branch \in {DefaultBranch, NoBranch}
    /\ wd_state_file = IF wd_branch = NoBranch THEN WorkDirState(<<>>, NoBranch)
                       ELSE NoStateFile
    /\ commit_log = <<>>
    /\ modified_since = [n \in FileNames |-> FALSE]
    /\ commits = 0
    /\ modifies = 0
    /\ dir_cache_files = [d \in Dirs |-> NoCacheFile]
    /\ dir_loaded = [d \in Dirs |-> FALSE]
    /\ dir_on_disk_state = [d \in Dirs |-> {}]
    /\ ac_result = NoAcResult
    /\ interrupted = [f \in FileNames |-> ZeroHash]
    /\ t_engine = "FsTransfer"
    /\ t_store_root = <<"R">>
    /\ t_ignored = {}
    /\ t_fs = NoFs
    /\ t_cache = NoTCache
    /\ t_store = {}
    /\ t_phase = "start"
    /\ t_src_hash = ZeroHash
    /\ t_src_fs = NoFs
    /\ t_failed = FALSE
    /\ t_stale = {}
    /\ t_pre_fs = NoFs
    /\ t_pre_cache = NoTCache
    /\ t_ok = TRUE
    /\ t_dest_hash = ZeroHash
    /\ t_hash = ZeroHash
    /\ t_err = NoError
    /\ t_parents = <<>>
    /\ t_commit_log = <<>>
    /\ cmp_node = [path |-> NoPath, obj |-> NoObj]
    /\ cmp_status = "none"
    /\ cmp_plan = NoPlan
    /\ tr_map = <<>>
    /\ tr_inserts = <<>>
    /\ tr_content = NoContent
    /\ ob_obj = [type |-> "Tree", content |-> <<>>, map |-> <<>>]
    /\ ob_via = "new"
    /\ ob_bytes = NoContent
    /\ ob_read = NotRead
    /\ cp_objects = {}
    /\ cp_hash = ZeroHash
    /\ cp_out = NotCopied
    /\ fl_on_disk = <<>>
    /\ fl_result = NotFlushed
    /\ rc_file = [content |-> <<>>, mtime |-> 0]
    /\ rc_cache = EmptyCache
    /\ rc_store = {}
    /\ rc_pc = "idle"
    /\ rc_stats = NoStats
    /\ rc_read = <<>>
    /\ rc_hash = ZeroHash
    /\ rc_torn = FALSE
    /\ rc_raced = FALSE
    /\ rc_since = FALSE
    /\ rc_writes = 0
    /\ pt_partial = NewPartialTree
    /\ pt_inserts = 0
    /\ pt_last = NoPartialCall

IngestNext ==
    \/ (\E f \in FileNames : BeginHashFile(f))
         /\ UNCHANGED <<diskVars, cacheVars, checkVars, transferVars, compareVars, treeVars,
                        objVars, copyVars, flushVars,
                        raceVars, partialVars>>
    \/ BeginHashPartialTree
         /\ UNCHANGED <<diskVars, cacheVars, checkVars, transferVars, compareVars, treeVars,
                        objVars, copyVars, flushVars,
                        raceVars, partialVars>>
    \/ BeginCommit
         /\ UNCHANGED <<diskVars, cacheVars, checkVars, transferVars, compareVars, treeVars,
                        objVars, copyVars, flushVars,
                        raceVars, partialVars>>
    \/ StepStore
         /\ UNCHANGED <<diskVars, cacheVars, checkVars, transferVars, compareVars, treeVars,
                        objVars, copyVars, flushVars,
                        raceVars, partialVars>>
    \/ StepCacheInsert
         /\ UNCHANGED <<diskVars, cacheVars, checkVars, transferVars, compareVars, treeVars,
                        objVars, copyVars, flushVars,
                        raceVars, partialVars>>
    \/ StepSetParents
         /\ UNCHANGED <<diskVars, cacheVars, checkVars, transferVars, compareVars, treeVars,
                        objVars, copyVars, flushVars,
                        raceVars, partialVars>>
    \/ StepUpdateRef
         /\ UNCHANGED <<diskVars, cacheVars, checkVars, transferVars, compareVars, treeVars,
                        objVars, copyVars, flushVars,
                        raceVars, partialVars>>
    \/ StepFlushState
         /\ UNCHANGED <<diskVars, cacheVars, checkVars, transferVars, compareVars, treeVars,
                        objVars, copyVars, flushVars,
                        raceVars, partialVars>>
    \/ FailStep
         /\ UNCHANGED <<diskVars, cacheVars, checkVars, transferVars, compareVars, treeVars,
                        objVars, copyVars, flushVars,
                        raceVars, partialVars>>
    \/ Finish
         /\ UNCHANGED <<diskVars, cacheVars, checkVars, transferVars, compareVars, treeVars,
                        objVars, copyVars, flushVars,
                        raceVars, partialVars>>

SpecIngest == InitIngest /\ [][IngestNext]_vars

\* a cache file left by an earlier run that hashed file f when it had another
\* modification time
StaleCacheFile(f, file) ==
    << [name |-> f, size |-> Len(file.content), mtime |-> file.mtime + 1,
       hash |-> ObjectHash(Blob(<< >>)) ]>>
\* the files of directory d
FilesOf(d) == {n \in FileNames : DirOf(n) = d}
\* what the cache file of directory d can hold before the program starts
CacheFilesOf(d, files) ==
    {NoCacheFile, BadJson, NotUtf8} \cup {StaleCacheFile(f, files[f]) : f \in FilesOf(d)}

\* a work directory with any content in file a, an empty object store, and in
\* each directory no cache file, an older one, or one that cannot be read
InitRuns ==
    /\ tmp_file = NoFile
    /\ object_files = <<>>
    /\ object_dirs = {}
    /\ incoming = 0
    /\ pc = "idle"
    /\ cur_obj = <<>>
    /\ stores = 0
    /\ files_at_start = <<>>
    /\ returned = 0
    /\ cache_file = NoCacheFile
    /\ hc_open = FALSE
    /\ hc_cache = EmptyCache
    /\ hc_on_disk_state = {}
    /\ latest = EmptyCache
    /\ writes = 0
    /\ chk_cache = EmptyCache
    /\ chk_name = "a"
    /\ chk_stats = [size |-> 0, mtime |-> 0]
    /\ chk_result = NoResult
    /\ fs_files \in {[n \in FileNames |-> [content |-> IF n = "a" THEN c ELSE <<0, 1, 0>>, mtime |-> 0]] : c \in FileContents}
    /\ store = {}
    /\ all_caches = EmptyCache
    /\ op = NoOp
    /\ plan = <<>>
    /\ op_log = <<>>
    /\ op_cached = {}
    /\ wd_parents = <<>>
    /\ branch_ref = ZeroHash
    /\ wd_state_file = NoStateFile
    /\ wd_branch = DefaultBranch
    /\ commit_log = <<>>
    /\ modified_since = [n \in FileNames |-> FALSE]
    /\ commits = 0
    /\ modifies = 0
    /\ dir_cache_files \in {[d \in Dirs |-> IF d = "wd" THEN x ELSE y] :
                              x \in CacheFilesOf("wd", fs_files),
                              y \in CacheFilesOf("d", fs_files)}
    /\ dir_loaded = [d \in Dirs |-> FALSE]
    /\ dir_on_disk_state = [d \in Dirs |-> {}]
    /\ ac_result = NoAcResult
    /\ interrupted = [f \in FileNames |-> ZeroHash]
    /\ t_engine = "FsTransfer"
    /\ t_store_root = <<"R">>
    /\ t_ignored = {}
    /\ t_fs = NoFs
    /\ t_cache = NoTCache
    /\ t_store = {}
    /\ t_phase = "start"
    /\ t_src_hash = ZeroHash
    /\ t_src_fs = NoFs
    /\ t_failed = FALSE
    /\ t_stale = {}
    /\ t_pre_fs = NoFs
    /\ t_pre_cache = NoTCache
    /\ t_ok = TRUE
    /\ t_dest_hash = ZeroHash
    /\ t_hash = ZeroHash
    /\ t_err = NoError
    /\ t_parents = <<>>
    /\ t_commit_log = <<>>
    /\ cmp_node = [path |-> NoPath, obj |-> NoObj]
    /\ cmp_status = "none"
    /\ cmp_plan = NoPlan
    /\ tr_map = <<>>
    /\ tr_inserts = <<>>
    /\ tr_content = NoContent
    /\ ob_obj = [type |-> "Tree", content |-> <<>>, map |-> <<>>]
    /\ ob_via = "new"
    /\ ob_bytes = NoContent
    /\ ob_read = NotRead
    /\ cp_objects = {}
    /\ cp_hash = ZeroHash
    /\ cp_out = NotCopied
    /\ fl_on_disk = <<>>
    /\ fl_result = NotFlushed
    /\ rc_file = [content |-> <<>>, mtime |-> 0]
    /\ rc_cache = EmptyCache
    /\ rc_store = {}
    /\ rc_pc = "idle"
    /\ rc_stats = NoStats
    /\ rc_read = <<>>
    /\ rc_hash = ZeroHash
    /\ rc_torn = FALSE
    /\ rc_raced = FALSE
    /\ rc_since = FALSE
    /\ rc_writes = 0
    /\ pt_partial = NewPartialTree
    /\ pt_inserts = 0
    /\ pt_last = NoPartialCall

RunsNext ==
    \/ (\E f \in FileNames : BeginHashFile(f))
         /\ UNCHANGED <<diskVars, cacheVars, checkVars, transferVars, compareVars, treeVars,
                        objVars, copyVars, flushVars,
                        raceVars, partialVars>>
    \/ StepStore
         /\ UNCHANGED <<diskVars, cacheVars, checkVars, transferVars, compareVars, treeVars,
                        objVars, copyVars, flushVars,
                        raceVars, partialVars>>
    \/ StepCacheInsert
         /\ UNCHANGED <<diskVars, cacheVars, checkVars, transferVars, compareVars, treeVars,
                        objVars, copyVars, flushVars,
                        raceVars, partialVars>>
    \/ StepCacheInsertFails
         /\ UNCHANGED <<diskVars, cacheVars, checkVars, transferVars, compareVars, treeVars,
                        objVars, copyVars, flushVars,
                        raceVars, partialVars>>
    \/ FailStep
         /\ UNCHANGED <<diskVars, cacheVars, checkVars, transferVars, compareVars, treeVars,
                        objVars, copyVars, flushVars,
                        raceVars, partialVars>>
    \/ Finish
         /\ UNCHANGED <<diskVars, cacheVars, checkVars, transferVars, compareVars, treeVars,
                        objVars, copyVars, flushVars,
                        raceVars, partialVars>>
    \/ (\E f \in FileNames : AllCachesCheck(f))
         /\ UNCHANGED <<diskVars, cacheVars, checkVars, transferVars, compareVars, treeVars,
                        objVars, copyVars, flushVars,
                        raceVars, partialVars>>
    \/ AllCachesFlush
         /\ UNCHANGED <<diskVars, cacheVars, checkVars, transferVars, compareVars, treeVars,
                        objVars, copyVars, flushVars,
                        raceVars, partialVars>>
    \/ Crash
         /\ UNCHANGED <<diskVars, cacheVars, checkVars, transferVars, compareVars, treeVars,
                        objVars, copyVars, flushVars,
                        raceVars, partialVars>>

SpecRuns == InitRuns /\ [][RunsNext]_vars

\* either engine, built by with_object_store on a store inside or outside D,
\* any of the file trees, and an empty store or one that holds the objects of X
InitTransfer ==
    /\ tmp_file = NoFile
    /\ object_files = <<>>
    /\ object_dirs = {}
    /\ incoming = 0
    /\ pc = "idle"
    /\ cur_obj = <<>>
    /\ stores = 0
    /\ files_at_start = <<>>
    /\ returned = 0
    /\ cache_file = NoCacheFile
    /\ hc_open = FALSE
    /\ hc_cache = EmptyCache
    /\ hc_on_disk_state = {}
    /\ latest = EmptyCache
    /\ writes = 0
    /\ chk_cache = EmptyCache
    /\ chk_name = "a"
    /\ chk_stats = [size |-> 0, mtime |-> 0]
    /\ chk_result = NoResult
    /\ fs_files = [n \in FileNames |-> [content |-> <<>>, mtime |-> 0]]
    /\ store = {}
    /\ all_caches = EmptyCache
    /\ op = NoOp
    /\ plan = <<>>
    /\ op_log = <<>>
    /\ op_cached = {}
    /\ wd_parents = <<>>
    /\ branch_ref = ZeroHash
    /\ wd_state_file = NoStateFile
    /\ wd_branch = DefaultBranch
    /\ commit_log = <<>>
    /\ modified_since = [n \in FileNames |-> FALSE]
    /\ commits = 0
    /\ modifies = 0
    /\ dir_cache_files = [d \in Dirs |-> NoCacheFile]
    /\ dir_loaded = [d \in Dirs |-> FALSE]
    /\ dir_on_disk_state = [d \in Dirs |-> {}]
    /\ ac_result = NoAcResult
    /\ interrupted = [f \in FileNames |-> ZeroHash]
    /\ t_engine \in Engines
    /\ t_store_root \in StoreRoots
    /\ \E u \in UserIgnoreLists :
          t_ignored = EngineIgnoreList(t_engine, t_store_root) \cup u
    /\ \E sc \in SrcChoices,
          dc \in {c \in DestChoices : c.x \in {"absent", "file", "cached", "dir"}} :
          /\ t_fs = MkFs(sc, dc, t_store_root)
          /\ t_cache = MkCache(dc)
          /\ t_store = MkStore(dc)
    /\ t_phase = "start"
    /\ t_src_hash = ZeroHash
    /\ t_src_fs = NoFs
    /\ t_failed = FALSE
    /\ t_stale = {}
    /\ t_pre_fs = NoFs
    /\ t_pre_cache = NoTCache
    /\ t_ok = TRUE
    /\ t_dest_hash = ZeroHash
    /\ t_hash = ZeroHash
    /\ t_err = NoError
    /\ t_parents = <<>>
    /\ t_commit_log = <<>>
    /\ cmp_node = [path |-> NoPath, obj |-> NoObj]
    /\ cmp_status = "none"
    /\ cmp_plan = NoPlan
    /\ tr_map = <<>>
    /\ tr_inserts = <<>>
    /\ tr_content = NoContent
    /\ ob_obj = [type |-> "Tree", content |-> <<>>, map |-> <<>>]
    /\ ob_via = "new"
    /\ ob_bytes = NoContent
    /\ ob_read = NotRead
    /\ cp_objects = {}
    /\ cp_hash = ZeroHash
    /\ cp_out = NotCopied
    /\ fl_on_disk = <<>>
    /\ fl_result = NotFlushed
    /\ rc_file = [content |-> <<>>, mtime |-> 0]
    /\ rc_cache = EmptyCache
    /\ rc_store = {}
    /\ rc_pc = "idle"
    /\ rc_stats = NoStats
    /\ rc_read = <<>>
    /\ rc_hash = ZeroHash
    /\ rc_torn = FALSE
    /\ rc_raced = FALSE
    /\ rc_since = FALSE
    /\ rc_writes = 0
    /\ pt_partial = NewPartialTree
    /\ pt_inserts = 0
    /\ pt_last = NoPartialCall

TransferNext ==
    \/ IngestDir
         /\ UNCHANGED <<diskVars, cacheVars, checkVars, ingestVars, compareVars, treeVars,
                        objVars, copyVars, flushVars,
                        raceVars, partialVars>>
    \/ RewriteFile
         /\ UNCHANGED <<diskVars, cacheVars, checkVars, ingestVars, compareVars, treeVars,
                        objVars, copyVars, flushVars,
                        raceVars, partialVars>>
    \/ ExtractObject
         /\ UNCHANGED <<diskVars, cacheVars, checkVars, ingestVars, compareVars, treeVars,
                        objVars, copyVars, flushVars,
                        raceVars, partialVars>>
    \/ IngestDest
         /\ UNCHANGED <<diskVars, cacheVars, checkVars, ingestVars, compareVars, treeVars,
                        objVars, copyVars, flushVars,
                        raceVars, partialVars>>

SpecTransfer == InitTransfer /\ [][TransferNext]_vars

\* either engine, a directory D with at most the file f, and any destination X
InitExtractFile ==
    /\ tmp_file = NoFile
    /\ object_files = <<>>
    /\ object_dirs = {}
    /\ incoming = 0
    /\ pc = "idle"
    /\ cur_obj = <<>>
    /\ stores = 0
    /\ files_at_start = <<>>
    /\ returned = 0
    /\ cache_file = NoCacheFile
    /\ hc_open = FALSE
    /\ hc_cache = EmptyCache
    /\ hc_on_disk_state = {}
    /\ latest = EmptyCache
    /\ writes = 0
    /\ chk_cache = EmptyCache
    /\ chk_name = "a"
    /\ chk_stats = [size |-> 0, mtime |-> 0]
    /\ chk_result = NoResult
    /\ fs_files = [n \in FileNames |-> [content |-> <<>>, mtime |-> 0]]
    /\ store = {}
    /\ all_caches = EmptyCache
    /\ op = NoOp
    /\ plan = <<>>
    /\ op_log = <<>>
    /\ op_cached = {}
    /\ wd_parents = <<>>
    /\ branch_ref = ZeroHash
    /\ wd_state_file = NoStateFile
    /\ wd_branch = DefaultBranch
    /\ commit_log = <<>>
    /\ modified_since = [n \in FileNames |-> FALSE]
    /\ commits = 0
    /\ modifies = 0
    /\ dir_cache_files = [d \in Dirs |-> NoCacheFile]
    /\ dir_loaded = [d \in Dirs |-> FALSE]
    /\ dir_on_disk_state = [d \in Dirs |-> {}]
    /\ ac_result = NoAcResult
    /\ interrupted = [f \in FileNames |-> ZeroHash]
    /\ t_engine \in Engines
    /\ t_store_root \in StoreRoots
    /\ t_ignored = EngineIgnoreList(t_engine, t_store_root)
    /\ \E sc \in {c \in SrcChoices : c.e = "absent"}, dc \in DestChoices :
          /\ t_fs = MkFs(sc, dc, t_store_root)
          /\ t_cache = MkCache(dc)
          /\ t_store = MkStore(dc)
    /\ t_phase = "start"
    /\ t_src_hash = ZeroHash
    /\ t_src_fs = NoFs
    /\ t_failed = FALSE
    /\ t_stale = {}
    /\ t_pre_fs = NoFs
    /\ t_pre_cache = NoTCache
    /\ t_ok = TRUE
    /\ t_dest_hash = ZeroHash
    /\ t_hash = ZeroHash
    /\ t_err = NoError
    /\ t_parents = <<>>
    /\ t_commit_log = <<>>
    /\ cmp_node = [path |-> NoPath, obj |-> NoObj]
    /\ cmp_status = "none"
    /\ cmp_plan = NoPlan
    /\ tr_map = <<>>
    /\ tr_inserts = <<>>
    /\ tr_content = NoContent
    /\ ob_obj = [type |-> "Tree", content |-> <<>>, map |-> <<>>]
    /\ ob_via = "new"
    /\ ob_bytes = NoContent
    /\ ob_read = NotRead
    /\ cp_objects = {}
    /\ cp_hash = ZeroHash
    /\ cp_out = NotCopied
    /\ fl_on_disk = <<>>
    /\ fl_result = NotFlushed
    /\ rc_file = [content |-> <<>>, mtime |-> 0]
    /\ rc_cache = EmptyCache
    /\ rc_store = {}
    /\ rc_pc = "idle"
    /\ rc_stats = NoStats
    /\ rc_read = <<>>
    /\ rc_hash = ZeroHash
    /\ rc_torn = FALSE
    /\ rc_raced = FALSE
    /\ rc_since = FALSE
    /\ rc_writes = 0
    /\ pt_partial = NewPartialTree
    /\ pt_inserts = 0
    /\ pt_last = NoPartialCall

ExtractFileNext ==
    \/ IngestDir
         /\ UNCHANGED <<diskVars, cacheVars, checkVars, ingestVars, compareVars, treeVars,
                        objVars, copyVars, flushVars,
                        raceVars, partialVars>>
    \/ ExtractFileObject
         /\ UNCHANGED <<diskVars, cacheVars, checkVars, ingestVars, compareVars, treeVars,
                        objVars, copyVars, flushVars,
                        raceVars, partialVars>>

SpecExtractFile == InitExtractFile /\ [][ExtractFileNext]_vars

\* a work directory D whose hidden directory D/s is the store root, with any
\* of the file trees, and a store that is empty or holds objects already
InitCommits ==
    /\ tmp_file = NoFile
    /\ object_files = <<>>
    /\ object_dirs = {}
    /\ incoming = 0
    /\ pc = "idle"
    /\ cur_obj = <<>>
    /\ stores = 0
    /\ files_at_start = <<>>
    /\ returned = 0
    /\ cache_file = NoCacheFile
    /\ hc_open = FALSE
    /\ hc_cache = EmptyCache
    /\ hc_on_disk_state = {}
    /\ latest = EmptyCache
    /\ writes = 0
    /\ chk_cache = EmptyCache
    /\ chk_name = "a"
    /\ chk_stats = [size |-> 0, mtime |-> 0]
    /\ chk_result = NoResult
    /\ fs_files = [n \in FileNames |-> [content |-> <<>>, mtime |-> 0]]
    /\ store = {}
    /\ all_caches = EmptyCache
    /\ op = NoOp
    /\ plan = <<>>
    /\ op_log = <<>>
    /\ op_cached = {}
    /\ wd_parents = <<>>
    /\ branch_ref = ZeroHash
    /\ wd_state_file = NoStateFile
    /\ wd_branch = DefaultBranch
    /\ commit_log = <<>>
    /\ modified_since = [n \in FileNames |-> FALSE]
    /\ commits = 0
    /\ modifies = 0
    /\ dir_cache_files = [d \in Dirs |-> NoCacheFile]
    /\ dir_loaded = [d \in Dirs |-> FALSE]
    /\ dir_on_disk_state = [d \in Dirs |-> {}]
    /\ ac_result = NoAcResult
    /\ interrupted = [f \in FileNames |-> ZeroHash]
    /\ t_engine \in Engines
    /\ t_store_root = StoreInSrc
    /\ \E u \in UserIgnoreLists :
          t_ignored = EngineIgnoreList(t_engine, t_store_root) \cup u
    /\ \E sc \in SrcChoices, dc \in {c \in DestChoices : c.x \in {"absent", "cached"}} :
          /\ t_fs = MkFs(sc, dc, t_store_root)
          /\ t_cache = MkCache(dc)
          /\ t_store = MkStore(dc)
    /\ t_phase = "start"
    /\ t_src_hash = ZeroHash
    /\ t_src_fs = NoFs
    /\ t_failed = FALSE
    /\ t_stale = {}
    /\ t_pre_fs = NoFs
    /\ t_pre_cache = NoTCache
    /\ t_ok = TRUE
    /\ t_dest_hash = ZeroHash
    /\ t_hash = ZeroHash
    /\ t_err = NoError
    /\ t_parents = <<>>
    /\ t_commit_log = <<>>
    /\ cmp_node = [path |-> NoPath, obj |-> NoObj]
    /\ cmp_status = "none"
    /\ cmp_plan = NoPlan
    /\ tr_map = <<>>
    /\ tr_inserts = <<>>
    /\ tr_content = NoContent
    /\ ob_obj = [type |-> "Tree", content |-> <<>>, map |-> <<>>]
    /\ ob_via = "new"
    /\ ob_bytes = NoContent
    /\ ob_read = NotRead
    /\ cp_objects = {}
    /\ cp_hash = ZeroHash
    /\ cp_out = NotCopied
    /\ fl_on_disk = <<>>
    /\ fl_result = NotFlushed
    /\ rc_file = [content |-> <<>>, mtime |-> 0]
    /\ rc_cache = EmptyCache
    /\ rc_store = {}
    /\ rc_pc = "idle"
    /\ rc_stats = NoStats
    /\ rc_read = <<>>
    /\ rc_hash = ZeroHash
    /\ rc_torn = FALSE
    /\ rc_raced = FALSE
    /\ rc_since = FALSE
    /\ rc_writes = 0
    /\ pt_partial = NewPartialTree
    /\ pt_inserts = 0
    /\ pt_last = NoPartialCall

CommitsNext ==
    \/ IngestDir
         /\ UNCHANGED <<diskVars, cacheVars, checkVars, ingestVars, compareVars, treeVars,
                        objVars, copyVars, flushVars,
                        raceVars, partialVars>>
    \/ CommitWorkDir
         /\ UNCHANGED <<diskVars, cacheVars, checkVars, ingestVars, compareVars, treeVars,
                        objVars, copyVars, flushVars,
                        raceVars, partialVars>>

SpecCommits == InitCommits /\ [][CommitsNext]_vars

\* any node the dual walk can be at: a path, an object, or both
InitStatus ==
    /\ tmp_file = NoFile
    /\ object_files = <<>>
    /\ object_dirs = {}
    /\ incoming = 0
    /\ pc = "idle"
    /\ cur_obj = <<>>
    /\ stores = 0
    /\ files_at_start = <<>>
    /\ returned = 0
    /\ cache_file = NoCacheFile
    /\ hc_open = FALSE
    /\ hc_cache = EmptyCache
    /\ hc_on_disk_state = {}
    /\ latest = EmptyCache
    /\ writes = 0
    /\ chk_cache = EmptyCache
    /\ chk_name = "a"
    /\ chk_stats = [size |-> 0, mtime |-> 0]
    /\ chk_result = NoResult
    /\ fs_files = [n \in FileNames |-> [content |-> <<>>, mtime |-> 0]]
    /\ store = {}
    /\ all_caches = EmptyCache
    /\ op = NoOp
    /\ plan = <<>>
    /\ op_log = <<>>
    /\ op_cached = {}
    /\ wd_parents = <<>>
    /\ branch_ref = ZeroHash
    /\ wd_state_file = NoStateFile
    /\ wd_branch = DefaultBranch
    /\ commit_log = <<>>
    /\ modified_since = [n \in FileNames |-> FALSE]
    /\ commits = 0
    /\ modifies = 0
    /\ dir_cache_files = [d \in Dirs |-> NoCacheFile]
    /\ dir_loaded = [d \in Dirs |-> FALSE]
    /\ dir_on_disk_state = [d \in Dirs |-> {}]
    /\ ac_result = NoAcResult
    /\ interrupted = [f \in FileNames |-> ZeroHash]
    /\ t_engine = "FsTransfer"
    /\ t_store_root = <<"R">>
    /\ t_ignored = {}
    /\ t_fs = NoFs
    /\ t_cache = NoTCache
    /\ t_store = {}
    /\ t_phase = "start"
    /\ t_src_hash = ZeroHash
    /\ t_src_fs = NoFs
    /\ t_failed = FALSE
    /\ t_stale = {}
    /\ t_pre_fs = NoFs
    /\ t_pre_cache = NoTCache
    /\ t_ok = TRUE
    /\ t_dest_hash = ZeroHash
    /\ t_hash = ZeroHash
    /\ t_err = NoError
    /\ t_parents = <<>>
    /\ t_commit_log = <<>>
    /\ cmp_node \in CompareNodes
    /\ cmp_status = "none"
    /\ cmp_plan = NoPlan
    /\ tr_map = <<>>
    /\ tr_inserts = <<>>
    /\ tr_content = NoContent
    /\ ob_obj = [type |-> "Tree", content |-> <<>>, map |-> <<>>]
    /\ ob_via = "new"
    /\ ob_bytes = NoContent
    /\ ob_read = NotRead
    /\ cp_objects = {}
    /\ cp_hash = ZeroHash
    /\ cp_out = NotCopied
    /\ fl_on_disk = <<>>
    /\ fl_result = NotFlushed
    /\ rc_file = [content |-> <<>>, mtime |-> 0]
    /\ rc_cache = EmptyCache
    /\ rc_store = {}
    /\ rc_pc = "idle"
    /\ rc_stats = NoStats
    /\ rc_read = <<>>
    /\ rc_hash = ZeroHash
    /\ rc_torn = FALSE
    /\ rc_raced = FALSE
    /\ rc_since = FALSE
    /\ rc_writes = 0
    /\ pt_partial = NewPartialTree
    /\ pt_inserts = 0
    /\ pt_last = NoPartialCall

StatusNext ==
    \/ CompareStatus
         /\ UNCHANGED <<diskVars, cacheVars, checkVars, ingestVars, transferVars, treeVars,
                        objVars, copyVars, flushVars,
                        raceVars, partialVars>>
    \/ CompareNoDescend
         /\ UNCHANGED <<diskVars, cacheVars, checkVars, ingestVars, transferVars, treeVars,
                        objVars, copyVars, flushVars,
                        raceVars, partialVars>>

SpecStatus == InitStatus /\ [][StatusNext]_vars

\* Tree::new(), then inserts of any names and hashes in any order
InitTree ==
    /\ tmp_file = NoFile
    /\ object_files = <<>>
    /\ object_dirs = {}
    /\ incoming = 0
    /\ pc = "idle"
    /\ cur_obj = <<>>
    /\ stores = 0
    /\ files_at_start = <<>>
    /\ returned = 0
    /\ cache_file = NoCacheFile
    /\ hc_open = FALSE
    /\ hc_cache = EmptyCache
    /\ hc_on_disk_state = {}
    /\ latest = EmptyCache
    /\ writes = 0
    /\ chk_cache = EmptyCache
    /\ chk_name = "a"
    /\ chk_stats = [size |-> 0, mtime |-> 0]
    /\ chk_result = NoResult
    /\ fs_files = [n \in FileNames |-> [content |-> <<>>, mtime |-> 0]]
    /\ store = {}
    /\ all_caches = EmptyCache
    /\ op = NoOp
    /\ plan = <<>>
    /\ op_log = <<>>
    /\ op_cached = {}
    /\ wd_parents = <<>>
    /\ branch_ref = ZeroHash
    /\ wd_state_file = NoStateFile
    /\ wd_branch = DefaultBranch
    /\ commit_log = <<>>
    /\ modified_since = [n \in FileNames |-> FALSE]
    /\ commits = 0
    /\ modifies = 0
    /\ dir_cache_files = [d \in Dirs |-> NoCacheFile]
    /\ dir_loaded = [d \in Dirs |-> FALSE]
    /\ dir_on_disk_state = [d \in Dirs |-> {}]
    /\ ac_result = NoAcResult
    /\ interrupted = [f \in FileNames |-> ZeroHash]
    /\ t_engine = "FsTransfer"
    /\ t_store_root = <<"R">>
    /\ t_ignored = {}
    /\ t_fs = NoFs
    /\ t_cache = NoTCache
    /\ t_store = {}
    /\ t_phase = "start"
    /\ t_src_hash = ZeroHash
    /\ t_src_fs = NoFs
    /\ t_failed = FALSE
    /\ t_stale = {}
    /\ t_pre_fs = NoFs
    /\ t_pre_cache = NoTCache
    /\ t_ok = TRUE
    /\ t_dest_hash = ZeroHash
    /\ t_hash = ZeroHash
    /\ t_err = NoError
    /\ t_parents = <<>>
    /\ t_commit_log = <<>>
    /\ cmp_node = [path |-> NoPath, obj |-> NoObj]
    /\ cmp_status = "none"
    /\ cmp_plan = NoPlan
    /\ tr_map = <<>>
    /\ tr_inserts = <<>>
    /\ tr_content = NoContent
    /\ ob_obj = [type |-> "Tree", content |-> <<>>, map |-> <<>>]
    /\ ob_via = "new"
    /\ ob_bytes = NoContent
    /\ ob_read = NotRead
    /\ cp_objects = {}
    /\ cp_hash = ZeroHash
    /\ cp_out = NotCopied
    /\ fl_on_disk = <<>>
    /\ fl_result = NotFlushed
    /\ rc_file = [content |-> <<>>, mtime |-> 0]
    /\ rc_cache = EmptyCache
    /\ rc_store = {}
    /\ rc_pc = "idle"
    /\ rc_stats = NoStats
    /\ rc_read = <<>>
    /\ rc_hash = ZeroHash
    /\ rc_torn = FALSE
    /\ rc_raced = FALSE
    /\ rc_since = FALSE
    /\ rc_writes = 0
    /\ pt_partial = NewPartialTree
    /\ pt_inserts = 0
    /\ pt_last = NoPartialCall

TreeNext ==
    \/ (\E name \in TreeNames, hash \in TreeKeys : TreeInsertEntry(name, hash))
         /\ UNCHANGED <<diskVars, cacheVars, checkVars, ingestVars, transferVars,
                        compareVars, objVars, copyVars,
                        flushVars, raceVars, partialVars>>
    \/ TreeWrite
         /\ UNCHANGED <<diskVars, cacheVars, checkVars, ingestVars, transferVars,
                        compareVars, objVars, copyVars,
                        flushVars, raceVars, partialVars>>

SpecTree == InitTree /\ [][TreeNext]_vars

\* any Blob or Tree, written and read back
InitObjects ==
    /\ tmp_file = NoFile
    /\ object_files = <<>>
    /\ object_dirs = {}
    /\ incoming = 0
    /\ pc = "idle"
    /\ cur_obj = <<>>
    /\ stores = 0
    /\ files_at_start = <<>>
    /\ returned = 0
    /\ cache_file = NoCacheFile
    /\ hc_open = FALSE
    /\ hc_cache = EmptyCache
    /\ hc_on_disk_state = {}
    /\ latest = EmptyCache
    /\ writes = 0
    /\ chk_cache = EmptyCache
    /\ chk_name = "a"
    /\ chk_stats = [size |-> 0, mtime |-> 0]
    /\ chk_result = NoResult
    /\ fs_files = [n \in FileNames |-> [content |-> <<>>, mtime |-> 0]]
    /\ store = {}
    /\ all_caches = EmptyCache
    /\ op = NoOp
    /\ plan = <<>>
    /\ op_log = <<>>
    /\ op_cached = {}
    /\ wd_parents = <<>>
    /\ branch_ref = ZeroHash
    /\ wd_state_file = NoStateFile
    /\ wd_branch = DefaultBranch
    /\ commit_log = <<>>
    /\ modified_since = [n \in FileNames |-> FALSE]
    /\ commits = 0
    /\ modifies = 0
    /\ dir_cache_files = [d \in Dirs |-> NoCacheFile]
    /\ dir_loaded = [d \in Dirs |-> FALSE]
    /\ dir_on_disk_state = [d \in Dirs |-> {}]
    /\ ac_result = NoAcResult
    /\ interrupted = [f \in FileNames |-> ZeroHash]
    /\ t_engine = "FsTransfer"
    /\ t_store_root = <<"R">>
    /\ t_ignored = {}
    /\ t_fs = NoFs
    /\ t_cache = NoTCache
    /\ t_store = {}
    /\ t_phase = "start"
    /\ t_src_hash = ZeroHash
    /\ t_src_fs = NoFs
    /\ t_failed = FALSE
    /\ t_stale = {}
    /\ t_pre_fs = NoFs
    /\ t_pre_cache = NoTCache
    /\ t_ok = TRUE
    /\ t_dest_hash = ZeroHash
    /\ t_hash = ZeroHash
    /\ t_err = NoError
    /\ t_parents = <<>>
    /\ t_commit_log = <<>>
    /\ cmp_node = [path |-> NoPath, obj |-> NoObj]
    /\ cmp_status = "none"
    /\ cmp_plan = NoPlan
    /\ tr_map = <<>>
    /\ tr_inserts = <<>>
    /\ tr_content = NoContent
    /\ ob_obj \in {[type |-> "Tree", content |-> <<>>, map |-> <<>>]}
                  \cup {[type |-> "Blob", content |-> c, map |-> <<>>] : c \in Contents}
    /\ ob_via = "new"
    /\ ob_bytes = NoContent
    /\ ob_read = NotRead
    /\ cp_objects = {}
    /\ cp_hash = ZeroHash
    /\ cp_out = NotCopied
    /\ fl_on_disk = <<>>
    /\ fl_result = NotFlushed
    /\ rc_file = [content |-> <<>>, mtime |-> 0]
    /\ rc_cache = EmptyCache
    /\ rc_store = {}
    /\ rc_pc = "idle"
    /\ rc_stats = NoStats
    /\ rc_read = <<>>
    /\ rc_hash = ZeroHash
    /\ rc_torn = FALSE
    /\ rc_raced = FALSE
    /\ rc_since = FALSE
    /\ rc_writes = 0
    /\ pt_partial = NewPartialTree
    /\ pt_inserts = 0
    /\ pt_last = NoPartialCall

ObjectsNext ==
    \/ (\E name \in ObjectNames, hash \in TreeKeys : ObInsert(name, hash))
         /\ UNCHANGED <<diskVars, cacheVars, checkVars, ingestVars, transferVars,
                        compareVars, treeVars, copyVars,
                        flushVars, raceVars, partialVars>>
    \/ (\E names \in SUBSET DirEntryNames, hash \in TreeKeys : ObIngest(names, hash))
         /\ UNCHANGED <<diskVars, cacheVars, checkVars, ingestVars, transferVars,
                        compareVars, treeVars, copyVars,
                        flushVars, raceVars, partialVars>>
    \/ ObWrite
         /\ UNCHANGED <<diskVars, cacheVars, checkVars, ingestVars, transferVars,
                        compareVars, treeVars, copyVars,
                        flushVars, raceVars, partialVars>>
    \/ ObRead
         /\ UNCHANGED <<diskVars, cacheVars, checkVars, ingestVars, transferVars,
                        compareVars, treeVars, copyVars,
                        flushVars, raceVars, partialVars>>

SpecObjects == InitObjects /\ [][ObjectsNext]_vars

\* hash_path and hash_partial_tree on a directory that may be empty, hold only
\* ignored or empty content, or be ignored itself
InitHashPath ==
    /\ tmp_file = NoFile
    /\ object_files = <<>>
    /\ object_dirs = {}
    /\ incoming = 0
    /\ pc = "idle"
    /\ cur_obj = <<>>
    /\ stores = 0
    /\ files_at_start = <<>>
    /\ returned = 0
    /\ cache_file = NoCacheFile
    /\ hc_open = FALSE
    /\ hc_cache = EmptyCache
    /\ hc_on_disk_state = {}
    /\ latest = EmptyCache
    /\ writes = 0
    /\ chk_cache = EmptyCache
    /\ chk_name = "a"
    /\ chk_stats = [size |-> 0, mtime |-> 0]
    /\ chk_result = NoResult
    /\ fs_files = [n \in FileNames |-> [content |-> <<>>, mtime |-> 0]]
    /\ store = {}
    /\ all_caches = EmptyCache
    /\ op = NoOp
    /\ plan = <<>>
    /\ op_log = <<>>
    /\ op_cached = {}
    /\ wd_parents = <<>>
    /\ branch_ref = ZeroHash
    /\ wd_state_file = NoStateFile
    /\ wd_branch = DefaultBranch
    /\ commit_log = <<>>
    /\ modified_since = [n \in FileNames |-> FALSE]
    /\ commits = 0
    /\ modifies = 0
    /\ dir_cache_files = [d \in Dirs |-> NoCacheFile]
    /\ dir_loaded = [d \in Dirs |-> FALSE]
    /\ dir_on_disk_state = [d \in Dirs |-> {}]
    /\ ac_result = NoAcResult
    /\ interrupted = [f \in FileNames |-> ZeroHash]
    /\ t_engine \in Engines
    /\ t_store_root \in StoreRoots
    /\ \E u \in RootIgnoreLists :
          t_ignored = EngineIgnoreList(t_engine, t_store_root) \cup u
    /\ \E sc \in SrcChoices,
          dc \in {c \in DestChoices : c.x = "absent"} :
          /\ t_fs = MkFs(sc, dc, t_store_root)
          /\ t_cache = MkCache(dc)
          /\ t_store = MkStore(dc)
    /\ t_phase = "start"
    /\ t_src_hash = ZeroHash
    /\ t_src_fs = NoFs
    /\ t_failed = FALSE
    /\ t_stale = {}
    /\ t_pre_fs = NoFs
    /\ t_pre_cache = NoTCache
    /\ t_ok = TRUE
    /\ t_dest_hash = ZeroHash
    /\ t_hash = ZeroHash
    /\ t_err = NoError
    /\ t_parents = <<>>
    /\ t_commit_log = <<>>
    /\ cmp_node = [path |-> NoPath, obj |-> NoObj]
    /\ cmp_status = "none"
    /\ cmp_plan = NoPlan
    /\ tr_map = <<>>
    /\ tr_inserts = <<>>
    /\ tr_content = NoContent
    /\ ob_obj = [type |-> "Tree", content |-> <<>>, map |-> <<>>]
    /\ ob_via = "new"
    /\ ob_bytes = NoContent
    /\ ob_read = NotRead
    /\ cp_objects = {}
    /\ cp_hash = ZeroHash
    /\ cp_out = NotCopied
    /\ fl_on_disk = <<>>
    /\ fl_result = NotFlushed
    /\ rc_file = [content |-> <<>>, mtime |-> 0]
    /\ rc_cache = EmptyCache
    /\ rc_store = {}
    /\ rc_pc = "idle"
    /\ rc_stats = NoStats
    /\ rc_read = <<>>
    /\ rc_hash = ZeroHash
    /\ rc_torn = FALSE
    /\ rc_raced = FALSE
    /\ rc_since = FALSE
    /\ rc_writes = 0
    /\ pt_partial = NewPartialTree
    /\ pt_inserts = 0
    /\ pt_last = NoPartialCall

HashPathNext ==
    IngestDir
       /\ UNCHANGED <<diskVars, cacheVars, checkVars, ingestVars, compareVars, treeVars,
                      objVars, copyVars, flushVars, raceVars,
                        partialVars>>

SpecHashPath == InitHashPath /\ [][HashPathNext]_vars

\* any of the file objects, in a store that holds it and any of the others
InitCopy ==
    /\ tmp_file = NoFile
    /\ object_files = <<>>
    /\ object_dirs = {}
    /\ incoming = 0
    /\ pc = "idle"
    /\ cur_obj = <<>>
    /\ stores = 0
    /\ files_at_start = <<>>
    /\ returned = 0
    /\ cache_file = NoCacheFile
    /\ hc_open = FALSE
    /\ hc_cache = EmptyCache
    /\ hc_on_disk_state = {}
    /\ latest = EmptyCache
    /\ writes = 0
    /\ chk_cache = EmptyCache
    /\ chk_name = "a"
    /\ chk_stats = [size |-> 0, mtime |-> 0]
    /\ chk_result = NoResult
    /\ fs_files = [n \in FileNames |-> [content |-> <<>>, mtime |-> 0]]
    /\ store = {}
    /\ all_caches = EmptyCache
    /\ op = NoOp
    /\ plan = <<>>
    /\ op_log = <<>>
    /\ op_cached = {}
    /\ wd_parents = <<>>
    /\ branch_ref = ZeroHash
    /\ wd_state_file = NoStateFile
    /\ wd_branch = DefaultBranch
    /\ commit_log = <<>>
    /\ modified_since = [n \in FileNames |-> FALSE]
    /\ commits = 0
    /\ modifies = 0
    /\ dir_cache_files = [d \in Dirs |-> NoCacheFile]
    /\ dir_loaded = [d \in Dirs |-> FALSE]
    /\ dir_on_disk_state = [d \in Dirs |-> {}]
    /\ ac_result = NoAcResult
    /\ interrupted = [f \in FileNames |-> ZeroHash]
    /\ t_engine = "FsTransfer"
    /\ t_store_root = <<"R">>
    /\ t_ignored = {}
    /\ t_fs = NoFs
    /\ t_cache = NoTCache
    /\ t_store = {}
    /\ t_phase = "start"
    /\ t_src_hash = ZeroHash
    /\ t_src_fs = NoFs
    /\ t_failed = FALSE
    /\ t_stale = {}
    /\ t_pre_fs = NoFs
    /\ t_pre_cache = NoTCache
    /\ t_ok = TRUE
    /\ t_dest_hash = ZeroHash
    /\ t_hash = ZeroHash
    /\ t_err = NoError
    /\ t_parents = <<>>
    /\ t_commit_log = <<>>
    /\ cmp_node = [path |-> NoPath, obj |-> NoObj]
    /\ cmp_status = "none"
    /\ cmp_plan = NoPlan
    /\ tr_map = <<>>
    /\ tr_inserts = <<>>
    /\ tr_content = NoContent
    /\ ob_obj = [type |-> "Tree", content |-> <<>>, map |-> <<>>]
    /\ ob_via = "new"
    /\ ob_bytes = NoContent
    /\ ob_read = NotRead
    /\ cp_hash \in CopyHashes
    /\ cp_objects \in {s \in SUBSET CopyObjects : cp_hash.sha \in s}
    /\ cp_out = NotCopied
    /\ fl_on_disk = <<>>
    /\ fl_result = NotFlushed
    /\ rc_file = [content |-> <<>>, mtime |-> 0]
    /\ rc_cache = EmptyCache
    /\ rc_store = {}
    /\ rc_pc = "idle"
    /\ rc_stats = NoStats
    /\ rc_read = <<>>
    /\ rc_hash = ZeroHash
    /\ rc_torn = FALSE
    /\ rc_raced = FALSE
    /\ rc_since = FALSE
    /\ rc_writes = 0
    /\ pt_partial = NewPartialTree
    /\ pt_inserts = 0
    /\ pt_last = NoPartialCall

CopyNext ==
    CopyContent
       /\ UNCHANGED <<diskVars, cacheVars, checkVars, ingestVars, transferVars,
                      compareVars, treeVars, objVars,
                        flushVars, raceVars, partialVars>>

SpecCopy == InitCopy /\ [][CopyNext]_vars

\* a directory whose file may have been hashed before, into the store the
\* engine is opened on or into another one; the cache file lies in the
\* directory of the file whichever store was used
InitSharedCache ==
    /\ tmp_file = NoFile
    /\ object_files = <<>>
    /\ object_dirs = {}
    /\ incoming = 0
    /\ pc = "idle"
    /\ cur_obj = <<>>
    /\ stores = 0
    /\ files_at_start = <<>>
    /\ returned = 0
    /\ cache_file = NoCacheFile
    /\ hc_open = FALSE
    /\ hc_cache = EmptyCache
    /\ hc_on_disk_state = {}
    /\ latest = EmptyCache
    /\ writes = 0
    /\ chk_cache = EmptyCache
    /\ chk_name = "a"
    /\ chk_stats = [size |-> 0, mtime |-> 0]
    /\ chk_result = NoResult
    /\ fs_files = [n \in FileNames |-> [content |-> <<>>, mtime |-> 0]]
    /\ store = {}
    /\ all_caches = EmptyCache
    /\ op = NoOp
    /\ plan = <<>>
    /\ op_log = <<>>
    /\ op_cached = {}
    /\ wd_parents = <<>>
    /\ branch_ref = ZeroHash
    /\ wd_state_file = NoStateFile
    /\ wd_branch = DefaultBranch
    /\ commit_log = <<>>
    /\ modified_since = [n \in FileNames |-> FALSE]
    /\ commits = 0
    /\ modifies = 0
    /\ dir_cache_files = [d \in Dirs |-> NoCacheFile]
    /\ dir_loaded = [d \in Dirs |-> FALSE]
    /\ dir_on_disk_state = [d \in Dirs |-> {}]
    /\ ac_result = NoAcResult
    /\ interrupted = [f \in FileNames |-> ZeroHash]
    /\ t_engine \in Engines
    /\ t_store_root = <<"R">>
    /\ t_ignored = EngineIgnoreList(t_engine, t_store_root)
    /\ \E sc \in SrcChoices,
          dc \in {c \in DestChoices : c.x = "absent"},
          origin \in CacheOrigins :
          /\ t_fs = MkFs(sc, dc, t_store_root)
          /\ t_cache = HashedBefore(t_fs, origin)
          /\ t_store = StoredBefore(t_fs, origin)
    /\ t_phase = "start"
    /\ t_src_hash = ZeroHash
    /\ t_src_fs = NoFs
    /\ t_failed = FALSE
    /\ t_stale = {}
    /\ t_pre_fs = NoFs
    /\ t_pre_cache = NoTCache
    /\ t_ok = TRUE
    /\ t_dest_hash = ZeroHash
    /\ t_hash = ZeroHash
    /\ t_err = NoError
    /\ t_parents = <<>>
    /\ t_commit_log = <<>>
    /\ cmp_node = [path |-> NoPath, obj |-> NoObj]
    /\ cmp_status = "none"
    /\ cmp_plan = NoPlan
    /\ tr_map = <<>>
    /\ tr_inserts = <<>>
    /\ tr_content = NoContent
    /\ ob_obj = [type |-> "Tree", content |-> <<>>, map |-> <<>>]
    /\ ob_via = "new"
    /\ ob_bytes = NoContent
    /\ ob_read = NotRead
    /\ cp_objects = {}
    /\ cp_hash = ZeroHash
    /\ cp_out = NotCopied
    /\ fl_on_disk = <<>>
    /\ fl_result = NotFlushed
    /\ rc_file = [content |-> <<>>, mtime |-> 0]
    /\ rc_cache = EmptyCache
    /\ rc_store = {}
    /\ rc_pc = "idle"
    /\ rc_stats = NoStats
    /\ rc_read = <<>>
    /\ rc_hash = ZeroHash
    /\ rc_torn = FALSE
    /\ rc_raced = FALSE
    /\ rc_since = FALSE
    /\ rc_writes = 0
    /\ pt_partial = NewPartialTree
    /\ pt_inserts = 0
    /\ pt_last = NoPartialCall

SharedCacheNext ==
    \/ IngestDir
         /\ UNCHANGED <<diskVars, cacheVars, checkVars, ingestVars, compareVars, treeVars,
                        objVars, copyVars, flushVars,
                        raceVars, partialVars>>
    \/ HashFileCall
         /\ UNCHANGED <<diskVars, cacheVars, checkVars, ingestVars, compareVars, treeVars,
                        objVars, copyVars, flushVars,
                        raceVars, partialVars>>

SpecSharedCache == InitSharedCache /\ [][SharedCacheNext]_vars

\* extracts of file objects onto X and hash_file(X), in any order and number,
\* by one engine, on a store that may lack the Blob of a chunk; every cache
\* entry at the start was made by the engine
InitCoherence ==
    /\ tmp_file = NoFile
    /\ object_files = <<>>
    /\ object_dirs = {}
    /\ incoming = 0
    /\ pc = "idle"
    /\ cur_obj = <<>>
    /\ stores = 0
    /\ files_at_start = <<>>
    /\ returned = 0
    /\ cache_file = NoCacheFile
    /\ hc_open = FALSE
    /\ hc_cache = EmptyCache
    /\ hc_on_disk_state = {}
    /\ latest = EmptyCache
    /\ writes = 0
    /\ chk_cache = EmptyCache
    /\ chk_name = "a"
    /\ chk_stats = [size |-> 0, mtime |-> 0]
    /\ chk_result = NoResult
    /\ fs_files = [n \in FileNames |-> [content |-> <<>>, mtime |-> 0]]
    /\ store = {}
    /\ all_caches = EmptyCache
    /\ op = NoOp
    /\ plan = <<>>
    /\ op_log = <<>>
    /\ op_cached = {}
    /\ wd_parents = <<>>
    /\ branch_ref = ZeroHash
    /\ wd_state_file = NoStateFile
    /\ wd_branch = DefaultBranch
    /\ commit_log = <<>>
    /\ modified_since = [n \in FileNames |-> FALSE]
    /\ commits = 0
    /\ modifies = 0
    /\ dir_cache_files = [d \in Dirs |-> NoCacheFile]
    /\ dir_loaded = [d \in Dirs |-> FALSE]
    /\ dir_on_disk_state = [d \in Dirs |-> {}]
    /\ ac_result = NoAcResult
    /\ interrupted = [f \in FileNames |-> ZeroHash]
    /\ t_engine \in Engines
    /\ t_store_root = <<"R">>
    /\ t_ignored = EngineIgnoreList(t_engine, t_store_root)
    /\ \E sc \in {c \in SrcChoices : c.e = "absent" /\ c.f = "absent"},
          dc \in {c \in DestChoices : c.x \in {"absent", "file", "cached", "dir"}},
          objects \in StoreChoices :
          /\ t_fs = MkFs(sc, dc, t_store_root)
          /\ t_cache = MkCache(dc)
          /\ t_store = MkStore(dc) \cup objects
    /\ t_phase = "start"
    /\ t_src_hash = ZeroHash
    /\ t_src_fs = NoFs
    /\ t_failed = FALSE
    /\ t_stale = {}
    /\ t_pre_fs = NoFs
    /\ t_pre_cache = NoTCache
    /\ t_ok = TRUE
    /\ t_dest_hash = ZeroHash
    /\ t_hash = ZeroHash
    /\ t_err = NoError
    /\ t_parents = <<>>
    /\ t_commit_log = <<>>
    /\ cmp_node = [path |-> NoPath, obj |-> NoObj]
    /\ cmp_status = "none"
    /\ cmp_plan = NoPlan
    /\ tr_map = <<>>
    /\ tr_inserts = <<>>
    /\ tr_content = NoContent
    /\ ob_obj = [type |-> "Tree", content |-> <<>>, map |-> <<>>]
    /\ ob_via = "new"
    /\ ob_bytes = NoContent
    /\ ob_read = NotRead
    /\ cp_objects = {}
    /\ cp_hash = ZeroHash
    /\ cp_out = NotCopied
    /\ fl_on_disk = <<>>
    /\ fl_result = NotFlushed
    /\ rc_file = [content |-> <<>>, mtime |-> 0]
    /\ rc_cache = EmptyCache
    /\ rc_store = {}
    /\ rc_pc = "idle"
    /\ rc_stats = NoStats
    /\ rc_read = <<>>
    /\ rc_hash = ZeroHash
    /\ rc_torn = FALSE
    /\ rc_raced = FALSE
    /\ rc_since = FALSE
    /\ rc_writes = 0
    /\ pt_partial = NewPartialTree
    /\ pt_inserts = 0
    /\ pt_last = NoPartialCall

CoherenceNext ==
    \/ ExtractFileOnto({"start", "file_extracted"})
         /\ UNCHANGED <<diskVars, cacheVars, checkVars, ingestVars, compareVars, treeVars,
                        objVars, copyVars, flushVars,
                        raceVars, partialVars>>
    \/ HashFileOn(DestRoot, {"start", "file_extracted"})
         /\ UNCHANGED <<diskVars, cacheVars, checkVars, ingestVars, compareVars, treeVars,
                        objVars, copyVars, flushVars,
                        raceVars, partialVars>>

SpecCoherence == InitCoherence /\ [][CoherenceNext]_vars

\* files at and below X hashed and file objects extracted onto X by one
\* engine, in any order and number, and then its caches dropped; at the start
\* every cache is as its file
InitFlush ==
    /\ tmp_file = NoFile
    /\ object_files = <<>>
    /\ object_dirs = {}
    /\ incoming = 0
    /\ pc = "idle"
    /\ cur_obj = <<>>
    /\ stores = 0
    /\ files_at_start = <<>>
    /\ returned = 0
    /\ cache_file = NoCacheFile
    /\ hc_open = FALSE
    /\ hc_cache = EmptyCache
    /\ hc_on_disk_state = {}
    /\ latest = EmptyCache
    /\ writes = 0
    /\ chk_cache = EmptyCache
    /\ chk_name = "a"
    /\ chk_stats = [size |-> 0, mtime |-> 0]
    /\ chk_result = NoResult
    /\ fs_files = [n \in FileNames |-> [content |-> <<>>, mtime |-> 0]]
    /\ store = {}
    /\ all_caches = EmptyCache
    /\ op = NoOp
    /\ plan = <<>>
    /\ op_log = <<>>
    /\ op_cached = {}
    /\ wd_parents = <<>>
    /\ branch_ref = ZeroHash
    /\ wd_state_file = NoStateFile
    /\ wd_branch = DefaultBranch
    /\ commit_log = <<>>
    /\ modified_since = [n \in FileNames |-> FALSE]
    /\ commits = 0
    /\ modifies = 0
    /\ dir_cache_files = [d \in Dirs |-> NoCacheFile]
    /\ dir_loaded = [d \in Dirs |-> FALSE]
    /\ dir_on_disk_state = [d \in Dirs |-> {}]
    /\ ac_result = NoAcResult
    /\ interrupted = [f \in FileNames |-> ZeroHash]
    /\ t_engine \in Engines
    /\ t_store_root = <<"R">>
    /\ t_ignored = EngineIgnoreList(t_engine, t_store_root)
    /\ \E sc \in {c \in SrcChoices : c.e = "absent" /\ c.f = "absent"},
          dc \in {c \in DestChoices : c.x \in {"absent", "file", "cached", "dir"}},
          objects \in StoreChoices :
          /\ t_fs = MkFs(sc, dc, t_store_root)
          /\ t_cache = MkCache(dc)
          /\ t_store = MkStore(dc) \cup objects
    /\ t_phase = "start"
    /\ t_src_hash = ZeroHash
    /\ t_src_fs = NoFs
    /\ t_failed = FALSE
    /\ t_stale = {}
    /\ t_pre_fs = NoFs
    /\ t_pre_cache = NoTCache
    /\ t_ok = TRUE
    /\ t_dest_hash = ZeroHash
    /\ t_hash = ZeroHash
    /\ t_err = NoError
    /\ t_parents = <<>>
    /\ t_commit_log = <<>>
    /\ cmp_node = [path |-> NoPath, obj |-> NoObj]
    /\ cmp_status = "none"
    /\ cmp_plan = NoPlan
    /\ tr_map = <<>>
    /\ tr_inserts = <<>>
    /\ tr_content = NoContent
    /\ ob_obj = [type |-> "Tree", content |-> <<>>, map |-> <<>>]
    /\ ob_via = "new"
    /\ ob_bytes = NoContent
    /\ ob_read = NotRead
    /\ cp_objects = {}
    /\ cp_hash = ZeroHash
    /\ cp_out = NotCopied
    /\ fl_on_disk = t_cache
    /\ fl_result = NotFlushed
    /\ rc_file = [content |-> <<>>, mtime |-> 0]
    /\ rc_cache = EmptyCache
    /\ rc_store = {}
    /\ rc_pc = "idle"
    /\ rc_stats = NoStats
    /\ rc_read = <<>>
    /\ rc_hash = ZeroHash
    /\ rc_torn = FALSE
    /\ rc_raced = FALSE
    /\ rc_since = FALSE
    /\ rc_writes = 0
    /\ pt_partial = NewPartialTree
    /\ pt_inserts = 0
    /\ pt_last = NoPartialCall

FlushNext ==
    \/ HashFileBelow
         /\ UNCHANGED <<diskVars, cacheVars, checkVars, ingestVars, compareVars, treeVars,
                        objVars, copyVars, raceVars,
                        partialVars>>
    \/ ExtractFileBefore
         /\ UNCHANGED <<diskVars, cacheVars, checkVars, ingestVars, compareVars, treeVars,
                        objVars, copyVars, raceVars,
                        partialVars>>
    \/ DropAllCaches
         /\ UNCHANGED <<diskVars, cacheVars, checkVars, ingestVars, compareVars, treeVars,
                        objVars, copyVars, raceVars,
                        partialVars>>

SpecFlush == InitFlush /\ [][FlushNext]_vars

\* hash_file calls on one file, one after the other, and the writes of another
\* program at any moment
InitRace ==
    /\ tmp_file = NoFile
    /\ object_files = <<>>
    /\ object_dirs = {}
    /\ incoming = 0
    /\ pc = "idle"
    /\ cur_obj = <<>>
    /\ stores = 0
    /\ files_at_start = <<>>
    /\ returned = 0
    /\ cache_file = NoCacheFile
    /\ hc_open = FALSE
    /\ hc_cache = EmptyCache
    /\ hc_on_disk_state = {}
    /\ latest = EmptyCache
    /\ writes = 0
    /\ chk_cache = EmptyCache
    /\ chk_name = "a"
    /\ chk_stats = [size |-> 0, mtime |-> 0]
    /\ chk_result = NoResult
    /\ fs_files = [n \in FileNames |-> [content |-> <<>>, mtime |-> 0]]
    /\ store = {}
    /\ all_caches = EmptyCache
    /\ op = NoOp
    /\ plan = <<>>
    /\ op_log = <<>>
    /\ op_cached = {}
    /\ wd_parents = <<>>
    /\ branch_ref = ZeroHash
    /\ wd_state_file = NoStateFile
    /\ wd_branch = DefaultBranch
    /\ commit_log = <<>>
    /\ modified_since = [n \in FileNames |-> FALSE]
    /\ commits = 0
    /\ modifies = 0
    /\ dir_cache_files = [d \in Dirs |-> NoCacheFile]
    /\ dir_loaded = [d \in Dirs |-> FALSE]
    /\ dir_on_disk_state = [d \in Dirs |-> {}]
    /\ ac_result = NoAcResult
    /\ interrupted = [f \in FileNames |-> ZeroHash]
    /\ t_engine = "FsTransfer"
    /\ t_store_root = <<"R">>
    /\ t_ignored = {}
    /\ t_fs = NoFs
    /\ t_cache = NoTCache
    /\ t_store = {}
    /\ t_phase = "start"
    /\ t_src_hash = ZeroHash
    /\ t_src_fs = NoFs
    /\ t_failed = FALSE
    /\ t_stale = {}
    /\ t_pre_fs = NoFs
    /\ t_pre_cache = NoTCache
    /\ t_ok = TRUE
    /\ t_dest_hash = ZeroHash
    /\ t_hash = ZeroHash
    /\ t_err = NoError
    /\ t_parents = <<>>
    /\ t_commit_log = <<>>
    /\ cmp_node = [path |-> NoPath, obj |-> NoObj]
    /\ cmp_status = "none"
    /\ cmp_plan = NoPlan
    /\ tr_map = <<>>
    /\ tr_inserts = <<>>
    /\ tr_content = NoContent
    /\ ob_obj = [type |-> "Tree", content |-> <<>>, map |-> <<>>]
    /\ ob_via = "new"
    /\ ob_bytes = NoContent
    /\ ob_read = NotRead
    /\ cp_objects = {}
    /\ cp_hash = ZeroHash
    /\ cp_out = NotCopied
    /\ fl_on_disk = <<>>
    /\ fl_result = NotFlushed
    /\ rc_file \in [content : FileContents, mtime : 0..MaxMtime]
    /\ rc_cache = EmptyCache
    /\ rc_store = {}
    /\ rc_pc = "idle"
    /\ rc_stats = NoStats
    /\ rc_read = <<>>
    /\ rc_hash = ZeroHash
    /\ rc_torn = FALSE
    /\ rc_raced = FALSE
    /\ rc_since = FALSE
    /\ rc_writes = 0
    /\ pt_partial = NewPartialTree
    /\ pt_inserts = 0
    /\ pt_last = NoPartialCall

RaceNext ==
    \/ RaceOpen
         /\ UNCHANGED <<diskVars, cacheVars, checkVars, ingestVars, transferVars, compareVars,
                        treeVars, objVars, copyVars, flushVars,
                        partialVars>>
    \/ RaceRead
         /\ UNCHANGED <<diskVars, cacheVars, checkVars, ingestVars, transferVars, compareVars,
                        treeVars, objVars, copyVars, flushVars,
                        partialVars>>
    \/ RaceInsert
         /\ UNCHANGED <<diskVars, cacheVars, checkVars, ingestVars, transferVars, compareVars,
                        treeVars, objVars, copyVars, flushVars,
                        partialVars>>
    \/ RaceModify
         /\ UNCHANGED <<diskVars, cacheVars, checkVars, ingestVars, transferVars, compareVars,
                        treeVars, objVars, copyVars, flushVars,
                        partialVars>>

SpecRace == InitRace /\ [][RaceNext]_vars

\* a PartialTree built with insert from PartialTree::new, and completed as
\* hash_partial_tree completes it
InitPartial ==
    /\ tmp_file = NoFile
    /\ object_files = <<>>
    /\ object_dirs = {}
    /\ incoming = 0
    /\ pc = "idle"
    /\ cur_obj = <<>>
    /\ stores = 0
    /\ files_at_start = <<>>
    /\ returned = 0
    /\ cache_file = NoCacheFile
    /\ hc_open = FALSE
    /\ hc_cache = EmptyCache
    /\ hc_on_disk_state = {}
    /\ latest = EmptyCache
    /\ writes = 0
    /\ chk_cache = EmptyCache
    /\ chk_name = "a"
    /\ chk_stats = [size |-> 0, mtime |-> 0]
    /\ chk_result = NoResult
    /\ fs_files = [n \in FileNames |-> [content |-> <<>>, mtime |-> 0]]
    /\ store = {}
    /\ all_caches = EmptyCache
    /\ op = NoOp
    /\ plan = <<>>
    /\ op_log = <<>>
    /\ op_cached = {}
    /\ wd_parents = <<>>
    /\ branch_ref = ZeroHash
    /\ wd_state_file = NoStateFile
    /\ wd_branch = DefaultBranch
    /\ commit_log = <<>>
    /\ modified_since = [n \in FileNames |-> FALSE]
    /\ commits = 0
    /\ modifies = 0
    /\ dir_cache_files = [d \in Dirs |-> NoCacheFile]
    /\ dir_loaded = [d \in Dirs |-> FALSE]
    /\ dir_on_disk_state = [d \in Dirs |-> {}]
    /\ ac_result = NoAcResult
    /\ interrupted = [f \in FileNames |-> ZeroHash]
    /\ t_engine = "FsTransfer"
    /\ t_store_root = <<"R">>
    /\ t_ignored = {}
    /\ t_fs = NoFs
    /\ t_cache = NoTCache
    /\ t_store = {}
    /\ t_phase = "start"
    /\ t_src_hash = ZeroHash
    /\ t_src_fs = NoFs
    /\ t_failed = FALSE
    /\ t_stale = {}
    /\ t_pre_fs = NoFs
    /\ t_pre_cache = NoTCache
    /\ t_ok = TRUE
    /\ t_dest_hash = ZeroHash
    /\ t_hash = ZeroHash
    /\ t_err = NoError
    /\ t_parents = <<>>
    /\ t_commit_log = <<>>
    /\ cmp_node = [path |-> NoPath, obj |-> NoObj]
    /\ cmp_status = "none"
    /\ cmp_plan = NoPlan
    /\ tr_map = <<>>
    /\ tr_inserts = <<>>
    /\ tr_content = NoContent
    /\ ob_obj = [type |-> "Tree", content |-> <<>>, map |-> <<>>]
    /\ ob_via = "new"
    /\ ob_bytes = NoContent
    /\ ob_read = NotRead
    /\ cp_objects = {}
    /\ cp_hash = ZeroHash
    /\ cp_out = NotCopied
    /\ fl_on_disk = <<>>
    /\ fl_result = NotFlushed
    /\ rc_file = [content |-> <<>>, mtime |-> 0]
    /\ rc_cache = EmptyCache
    /\ rc_store = {}
    /\ rc_pc = "idle"
    /\ rc_stats = NoStats
    /\ rc_read = <<>>
    /\ rc_hash = ZeroHash
    /\ rc_torn = FALSE
    /\ rc_raced = FALSE
    /\ rc_since = FALSE
    /\ rc_writes = 0
    /\ pt_partial = NewPartialTree
    /\ pt_inserts = 0
    /\ pt_last = NoPartialCall

PartialNext ==
    \/ PartialInsert
         /\ UNCHANGED <<diskVars, cacheVars, checkVars, ingestVars, transferVars, compareVars,
                        treeVars, objVars, copyVars, flushVars, raceVars>>
    \/ HashUnhashedChildren
         /\ UNCHANGED <<diskVars, cacheVars, checkVars, ingestVars, transferVars, compareVars,
                        treeVars, objVars, copyVars, flushVars, raceVars>>

SpecPartial == InitPartial /\ [][PartialNext]_vars

\* ------------------------------------------------------------ properties

\* C1: every file under objects/ at the path of key h holds exactly the
\* serialized bytes (header and content) of the object whose hash is h: the
\* bytes of the file hash to h, nothing missing and nothing added.
C1_ObjectFileIsItsObject ==
    \A k \in DOMAIN object_files : HashBytes(object_files[k]) = k

\* C2: store_object is idempotent: a store_object that returns a key already
\* present in the store returns the object's hash, leaves the object file of
\* every key with its content unchanged, and leaves no temp file.
C2_StoreIdempotent ==
    [][(returned' # returned /\ returned' # 0 /\ returned' \in DOMAIN object_files)
        => /\ returned' = HashBytes(SerializeBlob(cur_obj))
           /\ object_files' = object_files
           /\ tmp_file' = NoFile]_vars

C8_CheckResult ==
    chk_result # NoResult =>
      LET e == chk_cache[chk_name] IN
      /\ e = NoEntry =>
           chk_result.status = "NotCached" /\ chk_result.size = chk_stats.size
      /\ (e # NoEntry /\ (e.filestats.size # chk_stats.size
                          \/ e.filestats.mtime # chk_stats.mtime)) =>
           chk_result.status = "Modified" /\ chk_result.size = chk_stats.size
      /\ (e # NoEntry /\ e.filestats.size = chk_stats.size
                      /\ e.filestats.mtime = chk_stats.mtime) =>
           chk_result.status = "Cached" /\ chk_result.hash = e.hash

\* C8 witness: a check of a name whose entry has the current size and another
\* mtime has answered.
C8_Witness ==
    /\ chk_result # NoResult
    /\ chk_cache[chk_name] # NoEntry
    /\ chk_cache[chk_name].filestats.size = chk_stats.size
    /\ chk_cache[chk_name].filestats.mtime # chk_stats.mtime

\* C10: cache entries survive across sessions: an open HashCacheFile holds, for
\* every name ever inserted, the stats and hash of its latest insert; and once
\* the HashCacheFile is dropped the cache file on disk holds them.
C10_EntriesSurvive ==
    \A n \in FileNames :
       latest[n] # NoEntry =>
          /\ hc_open => hc_cache[n] = latest[n]
          /\ ~hc_open => /\ cache_file # NoCacheFile
                         /\ JsonDecode(cache_file)[n] = latest[n]

\* C10 witness: a session opened after two earlier writes of the file sees
\* entries for both names, all of them read from disk.
C10_Witness ==
    /\ hc_open
    /\ writes >= 2
    /\ \A n \in FileNames : latest[n] # NoEntry
    /\ CalculateHash(hc_cache) = hc_on_disk_state


C5_HashFileShape ==
    (op.kind \in {"hash_file", "store_file"} /\ plan = <<>>) =>
       /\ op.hash # ZeroHash
       /\ op_cached = {} =>
            LET chunks == ChunkBytes(op.content)
                n == Len(chunks) IN
            /\ n = 0 => op_log = <<Blob(<<>>)>>
            /\ n = 1 => op_log = <<Blob(op.content)>>
            /\ n >= 2 => /\ Len(op_log) = n + 1
                         /\ \A i \in 1..n : op_log[i] = Blob(chunks[i])
                         /\ op_log[n + 1].type = "ChunkedBlob"
            /\ op_log # <<>>
            /\ op.hash = ObjectHash(op_log[Len(op_log)])

\* C5 witness: hash_file of a three-chunk file has stored three Blobs and the
\* ChunkedBlob.
C5_Witness ==
    /\ op.kind = "hash_file" /\ plan = <<>>
    /\ Len(op_log) = 4
    /\ op_log[4].type = "ChunkedBlob"

\* the sum of the sizes of a ChunkedBlob's chunk records
RECURSIVE SumSizes(_)
SumSizes(chunks) ==
    IF chunks = <<>> THEN 0
    ELSE chunks[1].size + SumSizes(Tail(chunks))

\* C6: every ChunkedBlob in the store has first offset 0, each offset equal to
\* the previous offset plus the previous size, sizes that sum to total_size,
\* and for each chunk record a stored Blob with that hash whose content length
\* is the record's size; and the ChunkedBlob a file operation returns has the
\* file's length as total_size.
C6_ChunkedBlobInvariants ==
    /\ \A o \in store :
          o.type = "ChunkedBlob" =>
             /\ o.chunks # <<>> => o.chunks[1].offset = 0
             /\ \A i \in 1..(Len(o.chunks) - 1) :
                   o.chunks[i + 1].offset = o.chunks[i].offset + o.chunks[i].size
             /\ SumSizes(o.chunks) = o.total_size
             /\ \A i \in 1..Len(o.chunks) :
                   \E b \in store :
                      /\ b.type = "Blob"
                      /\ ObjectHash(b) = o.chunks[i].hash
                      /\ Len(b.content) = o.chunks[i].size
    /\ (op.kind \in {"hash_file", "store_file"} /\ plan = <<>>
          /\ op.hash.sha.type = "ChunkedBlob") =>
             op.hash.sha.total_size = Len(op.content)

\* C6 witness: store_file has stored the ChunkedBlob of a file whose two chunks
\* differ in size.
C6_Witness ==
    /\ op.kind = "store_file" /\ plan = <<>>
    /\ \E o \in store :
          /\ o.type = "ChunkedBlob"
          /\ ObjectHash(o) = op.hash
          /\ Len(o.chunks) = 2
          /\ o.chunks[1].size # o.chunks[2].size

\* C7: when hash_file has made all its calls the cache entry of the file holds
\* the file's stats and the hash hash_file returns; and a hash_file that finds
\* an entry with the file's current size and mtime returns the entry's hash,
\* has no call left to make and stores nothing.
C7_HashFileCaches ==
    /\ (op.kind = "hash_file" /\ plan = <<>>) =>
          all_caches[op.file] = [filestats |-> op.stats, hash |-> op.hash]
    /\ (op.kind = "hash_file" /\ op.entry_before # NoEntry
          /\ op.entry_before.filestats = op.stats) =>
             /\ plan = <<>>
             /\ op_log = <<>>
             /\ op.hash = op.entry_before.hash

\* C7 witness: a hash_file on a chunked file is answered from the entry an
\* earlier hash_file inserted.
C7_Witness ==
    /\ op.kind = "hash_file"
    /\ op.entry_before # NoEntry
    /\ op.entry_before.filestats = op.stats
    /\ op.hash.sha.type = "ChunkedBlob"
    /\ op.hash.sha \in store

\* C9 as stated: whenever check returns Cached{h} for a file (its size and mtime
\* are those of the entry), hashing the file's current content yields h; and
\* whenever the file's size or mtime differs from the entry's, check returns
\* Modified.
C9_CacheSoundByStats ==
    \A f \in FileNames :
       LET status == HashCacheCheck(all_caches, f, StatsOf(fs_files[f])) IN
       /\ status.status = "Cached" =>
             status.hash = LastHash(ReadFileObjects(fs_files[f].content))
       /\ (all_caches[f] # NoEntry
             /\ all_caches[f].filestats # StatsOf(fs_files[f])) =>
                status.status = "Modified"

\* C9 amended: whenever check returns Cached{h} for a file that has not been
\* written since hash_file read it and inserted the entry, hashing the file's
\* current content yields h; and whenever the file's size or mtime differs
\* from the entry's, check returns Modified.  (A write that keeps size and
\* mtime is not noticed.)
C9_CacheSoundUnwritten ==
    \A f \in FileNames :
       LET status == HashCacheCheck(all_caches, f, StatsOf(fs_files[f])) IN
       /\ (status.status = "Cached" /\ ~modified_since[f]) =>
             status.hash = LastHash(ReadFileObjects(fs_files[f].content))
       /\ (all_caches[f] # NoEntry
             /\ all_caches[f].filestats # StatsOf(fs_files[f])) =>
                status.status = "Modified"

\* C9 witness: the file was hashed, then written with another content and
\* another mtime, so that its entry no longer has its stats.
C9_Witness ==
    /\ all_caches["a"] # NoEntry
    /\ modified_since["a"]
    /\ all_caches["a"].filestats.size = Len(fs_files["a"].content)
    /\ all_caches["a"].filestats.mtime # fs_files["a"].mtime

\* the map the cache file holds: what a HashCacheFile loads from it
DiskMap == IF cache_file = NoCacheFile THEN EmptyCache ELSE JsonDecode(cache_file)

\* C11: a flush (explicit, or by drop) of a HashCacheFile whose map equals the
\* map loaded or last flushed writes nothing and creates no file; a flush of a
\* changed map writes the whole map; and after any flush the map equals what
\* the file holds, so that a second flush right after it writes nothing.
C11_FlushOnlyWhenChanged ==
    [][(HashCacheFileFlush \/ HashCacheFileDrop) =>
         /\ hc_cache = DiskMap =>
               /\ cache_file' = cache_file
               /\ writes' = writes
         /\ hc_cache # DiskMap =>
               /\ cache_file' = JsonEncode(hc_cache)
               /\ writes < MaxWrites => writes' = writes + 1
         /\ hc_cache' = IF cache_file' = NoCacheFile THEN EmptyCache
                        ELSE JsonDecode(cache_file')
         /\ hc_on_disk_state' = CalculateHash(hc_cache')]_vars

\* C11 witness: a changed cache was written and is still open, with nothing
\* changed since: the next flush is the second flush.
C11_Witness ==
    /\ hc_open
    /\ writes = 1
    /\ cache_file # NoCacheFile
    /\ hc_cache # EmptyCache
    /\ hc_cache = JsonDecode(cache_file)
    /\ hc_on_disk_state = CalculateHash(hc_cache)

C13_AbsentCacheFileIsEmpty ==
    [][\A f \in FileNames :
          AllCachesCheck(f) /\ ~dir_loaded[DirOf(f)]
             /\ dir_cache_files[DirOf(f)] = NoCacheFile =>
            /\ ac_result' = [file |-> f, status |-> "NotCached", hash |-> NoKey,
                             size |-> Len(fs_files[f].content), cache_file |-> "",
                             bad_json |-> NoCacheFile]
            /\ dir_loaded'[DirOf(f)]
            /\ DirCache(all_caches', DirOf(f)) = EmptyCache
            /\ dir_on_disk_state'[DirOf(f)] = CalculateHash(EmptyCache)
            /\ dir_cache_files' = dir_cache_files
      ]_vars

C13_Witness ==
    /\ ac_result.status = "NotCached"
    /\ dir_cache_files[DirOf(ac_result.file)] = NoCacheFile
    /\ dir_loaded[DirOf(ac_result.file)]
    /\ DirCache(all_caches, DirOf(ac_result.file)) = EmptyCache

\* C14: a check or insert that has to open a cache file which exists and cannot
\* be decoded as a cache map fails with CorruptCacheFile carrying the path of
\* the cache file and the content of the file; no cache is registered for the
\* directory and the file is left as it is.
C14_CorruptCacheFileReported ==
    [][\A f \in FileNames :
          /\ \/ AllCachesCheck(f)
             \/ StepCacheInsertFails /\ Head(plan).name = f
          /\ ~dir_loaded[DirOf(f)]
          /\ dir_cache_files[DirOf(f)] \in {BadJson, NotUtf8}
          => /\ ac_result' = [file |-> f, status |-> "CorruptCacheFile",
                              hash |-> NoKey, size |-> -1,
                              cache_file |-> DirOf(f),
                              bad_json |-> dir_cache_files[DirOf(f)]]
             /\ ~dir_loaded'[DirOf(f)]
             /\ DirCache(all_caches', DirOf(f)) = EmptyCache
             /\ dir_cache_files' = dir_cache_files
      ]_vars

\* C15: when the process stopped after hash_file had stored the objects of a
\* file and before the file's cache entry reached the cache file, the cache
\* file, once read again, gives NotCached or Modified for the file; a
\* hash_file of the file then returns the hash the interrupted run had
\* produced, and is answered from the cache only by an entry a later run
\* inserted; and at every moment, also between two stores and after a stop,
\* every object the store holds has all the objects it refers to in the store.
C15_LostUpdatesRecovered ==
    /\ \A f \in FileNames :
          (/\ interrupted[f] # ZeroHash
           /\ ~dir_loaded[DirOf(f)]
           /\ OpenOutcome(dir_cache_files[DirOf(f)]) = "Ok") =>
             HashCacheCheck(OpenedMap(dir_cache_files[DirOf(f)]), f,
                            StatsOf(fs_files[f])).status \in {"NotCached", "Modified"}
    /\ (op.kind = "hash_file" /\ interrupted[op.file] # ZeroHash) =>
          /\ op.hash = interrupted[op.file]
          /\ op.hash = LastHash(ReadFileObjects(fs_files[op.file].content))
          /\ op_cached # {} =>
                /\ op.entry_before.hash = op.hash
                /\ op.entry_before # OpenedMap(dir_cache_files[DirOf(op.file)])[op.file]
          /\ plan = <<>> => \E o \in store : ObjectHash(o) = op.hash
    /\ \A o \in store : \A h \in ChildRefs(o) : \E c \in store : ObjectHash(c) = h

\* after a stop that lost the entry of a chunked file, hash_file has stored the
\* file's objects again and is about to return the same hash
C15_Witness ==
    /\ op.kind = "hash_file" /\ plan = <<>>
    /\ interrupted[op.file] = op.hash
    /\ op_cached = {}
    /\ Len(op_log) > 1
    /\ all_caches[op.file].hash = op.hash

\* the hash a Tree gives for the path q below it, or ZeroHash when the trees
\* on the way have no such entry
RECURSIVE SubHash(_, _)
SubHash(hash, q) ==
    IF q = <<>> THEN hash
    ELSE IF hash = ZeroHash \/ hash.sha.type # "Tree" THEN ZeroHash
    ELSE LET es == {e \in hash.sha.entries : e.name = q[1]} IN
         IF es = {} THEN ZeroHash ELSE SubHash((CHOOSE e \in es : TRUE).hash, Tail(q))

\* a path with included content: a file that is not ignored, or a directory
\* that is not ignored and holds, at any depth, a file that is not ignored
HasIncluded(fs, ignored, p) ==
    /\ ~Ignores(ignored, p)
    /\ \E q \in TPaths : IsPrefix(p, q) /\ fs[q].kind = "file" /\ ~Ignores(ignored, q)

\* C16: the ignore list of an engine built by with_object_store contains the
\* object store root, and the Tree an ingest of D returns, and every Tree below
\* it, has no entry for the store root when the store lies inside D.
C16_StoreRootIgnored ==
    /\ t_store_root \in t_ignored
    /\ (t_store_root = StoreInSrc /\ t_src_hash # ZeroHash) =>
          SubHash(t_src_hash, <<"s">>) = ZeroHash

\* C17: in the Trees an ingest of D stored, a child of a directory has an
\* entry, under its own name and only one, exactly when it is a file that is
\* not ignored or a directory that is not ignored and holds a file that is not
\* ignored at some depth; an ignored path, an empty directory and a directory
\* holding only ignored paths and empty directories have no entry and no hash.
C17_OnlyIncludedChildren ==
    t_src_hash # ZeroHash =>
       \A q \in RelPaths :
          LET p == SrcRoot \o q
              h == SubHash(t_src_hash, q)
              kids == {c \in Children(t_src_fs, p) : HasIncluded(t_src_fs, t_ignored, c)}
          IN
          /\ (q # <<>> /\ ~HasIncluded(t_src_fs, t_ignored, p)) => h = ZeroHash
          /\ (t_src_fs[p].kind = "dir" /\ (q = <<>> \/ HasIncluded(t_src_fs, t_ignored, p))) =>
                /\ h # ZeroHash /\ h.sha.type = "Tree"
                /\ {e.name : e \in h.sha.entries} = {NameOf(c) : c \in kids}
                /\ Cardinality(h.sha.entries) = Cardinality(kids)
                /\ \A c \in kids : t_src_fs[c].kind = "file" =>
                      \E e \in h.sha.entries :
                         /\ e.name = NameOf(c)
                         /\ e.hash.sha.type \in {"Blob", "ChunkedBlob"}

\* an ingest that met a file, and a directory that holds nothing but a
\* directory whose only file is ignored
C17_Witness ==
    /\ t_phase = "ingested"
    /\ t_src_fs[<<"D", "e", "g", "f">>].kind = "file"
    /\ Ignores(t_ignored, <<"D", "e", "g">>)
    /\ t_src_fs[<<"D", "e", "f">>].kind = "absent"
    /\ SubHash(t_src_hash, <<"e">>) = ZeroHash
    /\ SubHash(t_src_hash, <<"f">>) # ZeroHash

\* the destination path did not exist before the extract
FreshDest == t_pre_fs[DestRoot].kind = "absent"
\* same kind of node and, for a file, the same bytes
SameNode(a, b) == a.kind = b.kind /\ a.content = b.content

\* C18 as stated: every ingest of a directory D returns a hash, and after
\* extracting it to a fresh path X, X holds at every path below it what D held
\* at ingest (file with the same bytes, directory, or nothing), and an ingest
\* of X returns the hash the ingest of D returned.
C18_RoundTrip ==
    /\ ~t_failed
    /\ (t_phase \in {"extracted", "rehashed"} /\ FreshDest) =>
          /\ t_ok
          /\ \A q \in RelPaths : SameNode(t_fs[DestRoot \o q], t_src_fs[SrcRoot \o q])
    /\ (t_phase = "rehashed" /\ FreshDest) => t_dest_hash = t_src_hash

\* C18 amended: when the ingest of D returns a hash, extracting it to a fresh
\* path X succeeds; X then holds a file exactly where D held a file that is not
\* ignored, with the same bytes unless the file was rewritten behind its cache
\* entry, and a directory exactly where D held a directory with included
\* content (and at X itself); and an ingest of X returns the same hash.
C18_RoundTripIncluded ==
    /\ (t_phase \in {"extracted", "rehashed"} /\ FreshDest) =>
          /\ t_ok
          /\ t_fs[DestRoot].kind = "dir"
          /\ \A q \in RelPaths \ {<<>>} :
                LET s == t_src_fs[SrcRoot \o q]
                    d == t_fs[DestRoot \o q]
                    inc == HasIncluded(t_src_fs, t_ignored, SrcRoot \o q) IN
                /\ d.kind = (IF inc THEN s.kind ELSE "absent")
                /\ (inc /\ s.kind = "file" /\ (SrcRoot \o q) \notin t_stale) =>
                      d.content = s.content
                /\ (inc /\ s.kind = "file") =>
                      d.content = BlobContent(SubHash(t_src_hash, q))
    /\ (t_phase = "rehashed" /\ FreshDest) => t_dest_hash = t_src_hash

\* a round trip of a directory with a chunked file and a file in a subdirectory
C18_Witness ==
    /\ t_phase = "rehashed" /\ FreshDest
    /\ t_dest_hash = t_src_hash
    /\ t_fs[<<"X", "f">>].content = <<0, 1, 0>>
    /\ t_fs[<<"X", "e", "f">>].kind = "file"
    /\ t_src_fs[<<"D", "e", "g">>].kind = "dir"
    /\ t_fs[<<"X", "e", "g">>].kind = "absent"

\* what the tree of the ingest names at path q below the destination: the
\* node is a directory for a Tree, a file with the object's bytes for a Blob or
\* ChunkedBlob, and absent for a path the tree does not name
MatchesTree(node, hash) ==
    IF hash = ZeroHash THEN node.kind = "absent"
    ELSE IF hash.sha.type = "Tree" THEN node.kind = "dir"
    ELSE node.kind = "file" /\ node.content = BlobContent(hash)

\* C19: an extract of a Tree onto a path that is a regular file returns Ok and
\* leaves a directory there, which holds exactly what the tree names: a file
\* with the object's bytes for each file entry, a directory for each Tree
\* entry, and nothing else; with or without a cache entry for the replaced file.
C19_TreeReplacesFile ==
    (t_phase = "extracted" /\ t_pre_fs[DestRoot].kind = "file") =>
       /\ t_ok
       /\ t_src_hash.sha.type = "Tree"
       /\ \A q \in RelPaths : MatchesTree(t_fs[DestRoot \o q], SubHash(t_src_hash, q))

\* a cached file was replaced by a directory with a file in a subdirectory
C19_Witness ==
    /\ t_phase = "extracted"
    /\ t_pre_fs[DestRoot].kind = "file"
    /\ t_pre_cache[DestRoot] # NoEntry
    /\ t_fs[DestRoot].kind = "dir"
    /\ t_fs[<<"X", "e", "f">>].kind = "file"

\* C20: an extract of a Tree onto a path that is a directory returns Ok and
\* keeps the directory; every path the tree names holds what the tree names
\* (a file of the same name is overwritten), and every file that was there
\* before at a path the tree does not name is as it was.
C20_TreeMergesIntoDir ==
    (t_phase = "extracted" /\ t_pre_fs[DestRoot].kind = "dir") =>
       /\ t_ok
       /\ t_fs[DestRoot].kind = "dir"
       /\ \A q \in RelPaths :
             /\ SubHash(t_src_hash, q) # ZeroHash =>
                   MatchesTree(t_fs[DestRoot \o q], SubHash(t_src_hash, q))
             /\ (SubHash(t_src_hash, q) = ZeroHash /\ t_pre_fs[DestRoot \o q].kind = "file") =>
                   t_fs[DestRoot \o q] = t_pre_fs[DestRoot \o q]

\* the content whose file object has the hash
ContentOf(hash) == CHOOSE c \in ExtractContents : LastHash(ReadFileObjects(c)) = hash

\* C21: FsTransfer's extract of a Blob or ChunkedBlob that the store holds, onto
\* a destination that is a directory, empty or not, returns Ok and leaves a
\* regular file with exactly the object's content, and nothing below it.
C21_FileReplacesDir ==
    (/\ t_phase = "file_extracted"
     /\ t_engine = "FsTransfer"
     /\ t_pre_fs[DestRoot].kind = "dir"
     /\ t_hash.sha \in t_store)
    => /\ t_ok
       /\ t_fs[DestRoot].kind = "file"
       /\ t_fs[DestRoot].content = ContentOf(t_hash)
       /\ \A q \in TPaths : (IsPrefix(DestRoot, q) /\ q # DestRoot)
                                 => t_fs[q].kind = "absent"
       /\ \A q \in TPaths : ~IsPrefix(DestRoot, q) => t_fs[q] = t_pre_fs[q]

\* a ChunkedBlob extracted onto a directory that held a file
C21_Witness ==
    /\ t_phase = "file_extracted"
    /\ t_engine = "FsTransfer"
    /\ t_pre_fs[DestRoot].kind = "dir"
    /\ t_pre_fs[DestRoot \o <<"h">>].kind = "file"
    /\ t_hash.sha \in t_store
    /\ t_hash.sha.type = "ChunkedBlob"
    /\ t_fs[DestRoot] = FileNode(<<0, 1, 0>>, WriteTime)

\* the same onto an empty directory
C21_WitnessEmptyDir ==
    /\ t_phase = "file_extracted"
    /\ t_engine = "FsTransfer"
    /\ t_pre_fs[DestRoot].kind = "dir"
    /\ Children(t_pre_fs, DestRoot) = {}
    /\ t_hash.sha \in t_store
    /\ t_fs[DestRoot].kind = "file"

\* C22: ObjectFsTransfer's extract of a Blob or ChunkedBlob that the store
\* holds, onto a destination that is a directory, fails with
\* WouldClobberDirectory naming the destination, and leaves the file tree and
\* the caches as they were.
C22_DirAborts ==
    (/\ t_phase = "file_extracted"
     /\ t_engine = "ObjectFsTransfer"
     /\ t_pre_fs[DestRoot].kind = "dir"
     /\ t_hash.sha \in t_store)
    => /\ ~t_ok
       /\ t_err = WouldClobberDirectory(DestRoot)
       /\ t_fs = t_pre_fs
       /\ t_cache = t_pre_cache

\* the same, for a directory whose name has no cache entry that matches the
\* directory's size and modification time with the hash extracted
C22_DirAbortsWhenNotCached ==
    (/\ t_phase = "file_extracted"
     /\ t_engine = "ObjectFsTransfer"
     /\ t_pre_fs[DestRoot].kind = "dir"
     /\ t_hash.sha \in t_store
     /\ ~CacheMatches([fs |-> t_pre_fs, cache |-> t_pre_cache], t_hash, DestRoot))
    => /\ ~t_ok
       /\ t_err = WouldClobberDirectory(DestRoot)
       /\ t_fs = t_pre_fs
       /\ t_cache = t_pre_cache

\* the abort on a directory that holds files
C22_AbortReached ==
    /\ t_phase = "file_extracted"
    /\ t_engine = "ObjectFsTransfer"
    /\ t_pre_fs[DestRoot \o <<"h">>].kind = "file"
    /\ t_hash.sha \in t_store
    /\ t_err = WouldClobberDirectory(DestRoot)

\* what the cache reported for the destination before the extract
PreStatus == HashCacheCheck(t_pre_cache, DestRoot, StatsOf(t_pre_fs[DestRoot]))

\* C23: an extract of a Blob or ChunkedBlob that the store holds onto a
\* destination that is a file writes nothing (file tree and caches unchanged)
\* when the cache reports Cached with the hash extracted, and in every other
\* case (NotCached, Modified, Cached with another hash) rewrites the file with
\* the object's content.
C23_FastPathOnlyOnMatch ==
    (/\ t_phase = "file_extracted"
     /\ t_pre_fs[DestRoot].kind = "file"
     /\ t_hash.sha \in t_store)
    => /\ t_ok
       /\ IF PreStatus.status = "Cached" /\ PreStatus.hash = t_hash
          THEN t_fs = t_pre_fs /\ t_cache = t_pre_cache
          ELSE /\ t_fs[DestRoot] = FileNode(ContentOf(t_hash), WriteTime)
               /\ \A q \in TPaths \ {DestRoot} : t_fs[q] = t_pre_fs[q]

\* the fast path was taken on a cached file, and a file cached with another
\* hash was rewritten
C23_Witness ==
    /\ t_phase = "file_extracted"
    /\ t_pre_fs[DestRoot].kind = "file"
    /\ t_hash.sha \in t_store
    /\ PreStatus.status = "Cached" /\ PreStatus.hash = t_hash
    /\ t_fs = t_pre_fs

C23_WitnessOtherHash ==
    /\ t_phase = "file_extracted"
    /\ t_pre_fs[DestRoot].kind = "file"
    /\ t_hash.sha \in t_store
    /\ PreStatus.status = "Cached" /\ PreStatus.hash # t_hash
    /\ t_fs[DestRoot].mtime = WriteTime

C23_WitnessModified ==
    /\ t_phase = "file_extracted"
    /\ t_hash.sha \in t_store
    /\ PreStatus.status = "Modified"
    /\ t_fs[DestRoot].mtime = WriteTime

\* C24: after an extract of a Blob or ChunkedBlob with hash h to X that returned
\* Ok, the cache check of X with the stats X has then returns Cached{h},
\* whatever X and its cache entry were before.
C24_ExtractPrimesCache ==
    (t_phase = "file_extracted" /\ t_ok)
    => HashCacheCheck(t_cache, DestRoot, StatsOf(t_fs[DestRoot]))
          = [status |-> "Cached", hash |-> t_hash, size |-> -1]

\* a file cached with another hash was overwritten, and the check gives the new hash
C24_Witness ==
    /\ t_phase = "file_extracted"
    /\ t_ok
    /\ t_pre_fs[DestRoot].kind = "file"
    /\ t_pre_cache[DestRoot] # NoEntry
    /\ t_pre_cache[DestRoot].hash # t_hash
    /\ t_fs[DestRoot].content # t_pre_fs[DestRoot].content
    /\ t_cache[DestRoot].hash = t_hash

\* C25: extract_object with the hash of an object the store does not hold
\* returns an error and leaves the destination and every other path as they
\* were (nothing created, truncated or removed) and the caches unchanged.
C25_MissingObjectTouchesNothing ==
    (t_phase = "file_extracted" /\ t_hash.sha \notin t_store)
    => /\ ~t_ok
       /\ t_err = ObjectNotFound(t_hash)
       /\ t_fs = t_pre_fs
       /\ t_cache = t_pre_cache

\* a missing object asked for at a directory that holds a file, under FsTransfer
C25_Witness ==
    /\ t_phase = "file_extracted"
    /\ t_engine = "FsTransfer"
    /\ t_hash.sha \notin t_store
    /\ t_pre_fs[DestRoot \o <<"h">>].kind = "file"
    /\ t_fs[DestRoot \o <<"h">>].kind = "file"
    /\ ~t_ok

\* a missing object asked for at a file, and at a path that does not exist
C25_WitnessFile ==
    /\ t_phase = "file_extracted"
    /\ t_hash.sha \notin t_store
    /\ t_pre_fs[DestRoot].kind = "file"
    /\ ~t_ok

C25_WitnessAbsent ==
    /\ t_phase = "file_extracted"
    /\ t_hash.sha \notin t_store
    /\ t_pre_fs[DestRoot].kind = "absent"
    /\ t_fs[DestRoot].kind = "absent"
    /\ ~t_ok

\* the Tree of the work directory as its files are
WorkDirTreeHash(files) ==
    LET file_hash(n) == LastHash(ReadFileObjects(files[n].content))
        d == TreeInsert(NewTree, "b", file_hash("b")) IN
    ObjectHash(TreeInsert(TreeInsert(NewTree, "a", file_hash("a")), "d", ObjectHash(d)))

C27_RefFollowsBranch ==
    /\ (op.kind = "commit" /\ plan = <<>>) =>
          /\ wd_state_file = WorkDirState(wd_parents, wd_branch)
          /\ wd_branch # NoBranch =>
                (branch_ref = op.hash /\ branch_ref = wd_parents[1])
    /\ wd_branch = NoBranch => branch_ref = ZeroHash
    /\ branch_ref # ZeroHash =>
          (branch_ref.sha.type = "Commit" /\ branch_ref.sha \in store)

\* a commit on the default branch has returned with the ref set
C27_Witness ==
    /\ op.kind = "commit" /\ plan = <<>>
    /\ wd_branch = DefaultBranch
    /\ branch_ref = op.hash
    /\ wd_state_file = WorkDirState(<<op.hash>>, DefaultBranch)

\* a detached commit has returned
C27_WitnessDetached ==
    /\ op.kind = "commit" /\ plan = <<>>
    /\ wd_branch = NoBranch
    /\ Len(commit_log) = 2
    /\ branch_ref = ZeroHash
    /\ wd_state_file = WorkDirState(<<op.hash>>, NoBranch)

\* C28: two consecutive commits of a work directory that nothing else changed in
\* between store two different Commit objects with the same tree: what the
\* first commit wrote (object store contents, state file, cache entries) does
\* not change the tree the second computes.
C28_SecondCommitSameTree ==
    Len(t_commit_log) >= 2 =>
       /\ t_commit_log[1] # t_commit_log[2]
       /\ t_commit_log[1].tree = t_commit_log[2].tree

\* the same for the engine whose ignore list holds the store root
C28_SameTreeWhenStoreIgnored ==
    (Len(t_commit_log) >= 2 /\ Ignores(t_ignored, t_store_root)) =>
       /\ t_commit_log[1] # t_commit_log[2]
       /\ t_commit_log[1].tree = t_commit_log[2].tree

\* two commits were made of a directory with files, the store root ignored
C28_TwoCommitsReached ==
    /\ Len(t_commit_log) = 2
    /\ Ignores(t_ignored, t_store_root)
    /\ t_commit_log[2].parents = <<ObjectHash(t_commit_log[1])>>
    /\ t_commit_log[1].tree.sha.entries # {}

\* C29: status is defined for every node where the path or the object exists:
\* Unchanged when both exist and the path's cached hash equals the object's
\* hash, Modified when both exist and the cached hash differs, MaybeModified
\* when both exist and the path has no cached hash, Ignored when only the path
\* exists and it is ignored, Untracked when only the path exists and it is not
\* ignored, Offline when only the object exists; a path whose object exists is
\* never Ignored.
C29_StatusTable ==
    cmp_status # "none" =>
       LET p == cmp_node.path
           o == cmp_node.obj IN
       /\ cmp_status \in {"Unchanged", "Modified", "MaybeModified", "Ignored",
                          "Untracked", "Offline"}
       /\ cmp_status = "Unchanged" <=>
             (p.exists /\ o.exists /\ p.hash # NoKey /\ p.hash = o.hash)
       /\ cmp_status = "Modified" <=>
             (p.exists /\ o.exists /\ p.hash # NoKey /\ p.hash # o.hash)
       /\ cmp_status = "MaybeModified" <=> (p.exists /\ o.exists /\ p.hash = NoKey)
       /\ cmp_status = "Ignored" <=> (p.exists /\ ~o.exists /\ p.ignored)
       /\ cmp_status = "Untracked" <=> (p.exists /\ ~o.exists /\ ~p.ignored)
       /\ cmp_status = "Offline" <=> (~p.exists /\ o.exists)
       /\ (cmp_plan # NoPlan) => cmp_plan.status = cmp_status

\* an ignored path whose object exists was reported by its hashes
C29_Witness ==
    /\ cmp_node.path.exists /\ cmp_node.obj.exists
    /\ cmp_node.path.ignored
    /\ cmp_node.path.hash # NoKey /\ cmp_node.path.hash # cmp_node.obj.hash
    /\ cmp_status = "Modified"
    /\ cmp_plan # NoPlan

\* the names of a sequence of entries are in strictly ascending order
Ascending(entries) ==
    \A i, j \in DOMAIN entries : i < j => NameLess(entries[i].name, entries[j].name)

\* the latest insert under a name, among the inserts made
LastInsert(name) ==
    LET is == {i \in DOMAIN tr_inserts : tr_inserts[i].name = name} IN
    tr_inserts[CHOOSE i \in is : \A j \in is : j <= i]

\* C30: whatever the order of the inserts, iteration over a Tree and its
\* serialization list the entries in strictly ascending name order, each name
\* once, with the hash of the latest insert under that name.
C30_TreeSortedByName ==
    /\ Ascending(tr_map)
    /\ {tr_map[i].name : i \in DOMAIN tr_map}
          = {tr_inserts[i].name : i \in DOMAIN tr_inserts}
    /\ \A i \in DOMAIN tr_map : tr_map[i] = LastInsert(tr_map[i].name)
    /\ tr_content # NoContent =>
          /\ ReadEntries(tr_content) = tr_map
          /\ Ascending(ReadEntries(tr_content))

\* three inserts in descending order, the last replacing the first, written
C30_Witness ==
    /\ Len(tr_inserts) = 3
    /\ tr_inserts[1].name = <<2, 1>> /\ tr_inserts[2].name = <<1, 2>>
    /\ tr_inserts[3].name = <<2, 1>> /\ tr_inserts[3].hash # tr_inserts[1].hash
    /\ Len(tr_map) = 2
    /\ tr_content = <<tr_inserts[2].hash, 1, 2, 10, tr_inserts[3].hash, 2, 1, 10>>

\* the type byte of an object's header
TypeByte(obj) == IF obj.type = "Blob" THEN ObjectTypeBlob ELSE ObjectTypeTree

\* a name the wire format can carry: UTF-8 and without the separator byte
PlainName(name) ==
    IsUtf8(name) /\ \A i \in DOMAIN name : name[i] # TreeEntrySeparator

\* reading what was written gave the header of the object and the object
RoundTrip ==
    /\ ob_read.ok
    /\ ob_read.header.object_type = TypeByte(ob_obj)
    /\ ob_read.header.content_size = ob_read.content_len
    /\ ob_read.obj = ob_obj

\* C31: for every Blob and every Tree O, writing O and then reading the header
\* and the content from the same reader gives a header with O's type and the
\* number of content bytes written as content_size, and an object equal to O.
C31_WriteReadRoundTrip ==
    /\ ob_bytes # WritePanic
    /\ ob_read.done => RoundTrip

\* C31 for Blobs and for Trees whose names are UTF-8 without the byte 0x0A
C31_RoundTripPlainNames ==
    (ob_obj.type = "Tree" =>
        \A i \in DOMAIN ob_obj.map : PlainName(ob_obj.map[i].name))
    => /\ ob_bytes # WritePanic
       /\ ob_read.done => RoundTrip

\* a Tree of two entries and a Blob of two bytes, read back
C31_TreeReadBack ==
    ob_read.done /\ ob_obj.type = "Tree" /\ Len(ob_obj.map) = 2 /\ RoundTrip

\* every name of the map is non-empty and has neither 0x0A nor 0x00
NamesWellFormed(map) ==
    \A i \in DOMAIN map :
       /\ map[i].name # << >>
       /\ \A j \in DOMAIN map[i].name :
             map[i].name[j] # TreeEntrySeparator /\ map[i].name[j] # 0

\* C32: every Tree that is built and written (by Tree::insert, by the ingest
\* of a directory, or by reading a stored Tree) has only names that are
\* non-empty and hold neither 0x0A nor 0x00, and no written Tree is read back
\* as a different set of entries.
C32_NamesWellFormed ==
    /\ (ob_obj.type = "Tree" /\ ob_bytes # NoContent /\ ob_bytes # WritePanic)
          => NamesWellFormed(ob_obj.map)
    /\ (ob_read.done /\ ob_read.ok /\ ob_read.obj.type = "Tree")
          => /\ NamesWellFormed(ob_read.obj.map)
             /\ ob_read.obj.map = ob_obj.map

\* C32 for the Trees the ingest of a directory builds: a name with 0x0A is the
\* one way such a Tree is ill-formed
C32_IngestedNamesButNewline ==
    (ob_via = "ingest" /\ ob_bytes # NoContent)
    => \A i \in DOMAIN ob_obj.map :
          /\ ob_obj.map[i].name # << >>
          /\ \A j \in DOMAIN ob_obj.map[i].name : ob_obj.map[i].name[j] # 0

\* the ingest of a directory with a file whose name has a newline: written,
\* and read back as other entries
C32_IngestedNewlineRead ==
    /\ ob_via = "ingest" /\ ob_read.done /\ ob_read.ok
    /\ ob_read.obj.map # ob_obj.map

\* C33: FsTransfer::hash_path on a root that yields no hash (an empty
\* directory, a directory whose whole content is ignored or empty, or an
\* ignored path) returns the error "Nothing to hash (all ignored?)" instead of
\* a hash, and stores no Tree for that root: the store is as it was.
C33_NothingToHash ==
    (/\ t_engine = "FsTransfer"
     /\ t_src_fs # NoFs
     /\ ~HasIncluded(t_src_fs, t_ignored, SrcRoot))
    => /\ t_failed
       /\ t_src_hash = ZeroHash
       /\ t_store = {}
       /\ t_cache = NoTCache

\* hash_path has failed on an empty directory
C33_Witness ==
    /\ t_engine = "FsTransfer" /\ t_failed /\ t_src_fs # NoFs
    /\ Children(t_src_fs, SrcRoot) = {}

\* on a directory that holds only an ignored file and an empty directory
C33_WitnessAllIgnored ==
    /\ t_engine = "FsTransfer" /\ t_failed /\ t_src_fs # NoFs
    /\ Cardinality(Children(t_src_fs, SrcRoot)) = 2
    /\ ~Ignores(t_ignored, SrcRoot)

\* and on a directory with files that is itself ignored
C33_WitnessRootIgnored ==
    /\ t_engine = "FsTransfer" /\ t_failed /\ t_src_fs # NoFs
    /\ Ignores(t_ignored, SrcRoot)
    /\ t_src_fs[SrcRoot \o <<"f">>].kind = "file"

\* the bytes an object stands for: a Blob's content, or for a ChunkedBlob the
\* bytes of its chunk records one after another, in the order of the index
RECURSIVE IndexBytes(_)
RECURSIVE IndexBytesFrom(_, _)
IndexBytes(hash) ==
    IF hash.sha.type = "Blob" THEN hash.sha.content
    ELSE IndexBytesFrom(hash.sha.chunks, 1)
IndexBytesFrom(chunks, i) ==
    IF i > Len(chunks) THEN <<>>
    ELSE IndexBytes(chunks[i].hash) \o IndexBytesFrom(chunks, i + 1)

\* the store holds the object and every object its chunk records lead to
RECURSIVE AllPresent(_, _)
AllPresent(objects, hash) ==
    /\ hash.sha \in objects
    /\ hash.sha.type = "ChunkedBlob" =>
          \A i \in DOMAIN hash.sha.chunks : AllPresent(objects, hash.sha.chunks[i].hash)

\* C34: copying the content of a ChunkedBlob writes the content of each chunk
\* record's Blob in index order, each once, resolving nested objects
\* recursively; for the ChunkedBlob made by hashing the bytes B it writes
\* exactly B; and when a chunk object is missing the copy fails with an error.
C34_CopyWritesChunksInOrder ==
    cp_out.done =>
       /\ AllPresent(cp_objects, cp_hash) =>
             /\ cp_out.ok
             /\ cp_out.bytes = IndexBytes(cp_hash)
             /\ \A c \in CopyContents :
                   cp_hash = LastHash(ReadFileObjects(c)) => cp_out.bytes = c
       /\ ~AllPresent(cp_objects, cp_hash) =>
             /\ ~cp_out.ok
             /\ cp_out.err.kind = "ObjectNotFound"
             /\ cp_out.err.at[1].sha \notin cp_objects

\* the file of three chunks copied out whole
C34_Witness ==
    /\ cp_out.done /\ cp_out.ok
    /\ cp_hash = LastHash(ReadFileObjects(<<1, 1, 0>>))
    /\ cp_out.bytes = <<1, 1, 0>>

\* the nested ChunkedBlob copied out whole
C34_WitnessNested ==
    /\ cp_out.done /\ cp_out.ok
    /\ cp_hash = ObjectHash(NestedChunkedBlob)
    /\ cp_out.bytes = <<0, 1, 0, 1>>

\* a copy that fails at the second chunk, after the first was written
C34_WitnessMissingChunk ==
    /\ cp_out.done /\ ~cp_out.ok
    /\ cp_out.bytes = <<0, 1>>

\* the store holds the object of the hash and everything reachable from it
RECURSIVE Closed(_, _)
Closed(objects, hash) ==
    /\ hash.sha \in objects
    /\ \A h \in ChildRefs(hash.sha) : Closed(objects, h)

\* C35: every hash that hash_file or hash_path returned, computed or taken
\* from the stat cache, names an object that the engine's store holds together
\* with everything reachable from it, and no Tree in the store has an entry
\* whose object the store does not hold.
C35_ReturnedHashesStored ==
    /\ t_hash # ZeroHash => Closed(t_store, t_hash)
    /\ t_src_hash # ZeroHash => Closed(t_store, t_src_hash)
    /\ \A o \in t_store : o.type = "Tree" => \A h \in ChildRefs(o) : h.sha \in t_store

\* C35 when every cache entry was made by hashing into this store
C35_StoredWhenCacheFromStore ==
    (\A p \in TPaths : t_cache[p] # NoEntry => Closed(t_store, t_cache[p].hash))
    => C35_ReturnedHashesStored

\* hash_file answered from the cache, and hash_path stored a Tree with that
\* answer as an entry, on a store that holds the file's objects
C35_CachedAnswerStored ==
    /\ t_hash # ZeroHash /\ t_src_hash # ZeroHash
    /\ t_hash.sha.type = "ChunkedBlob"
    /\ Closed(t_store, t_src_hash)
    /\ \E e \in t_src_hash.sha.entries : e.hash = t_hash

\* C36: a commit that fails at any step leaves WorkDirState.parents, in memory
\* and on disk, and every ref as they were: whenever no operation runs, the
\* persisted state names the parents held in memory (no state file standing for
\* no parents), and on a branch the ref names the commit the parents name.
C36_FailedCommitChangesNothing ==
    op.kind = "none" =>
       /\ IF wd_state_file = NoStateFile THEN wd_parents = <<>>
          ELSE wd_state_file.parents = wd_parents
       /\ (wd_branch # NoBranch /\ wd_parents # <<>>) => branch_ref = wd_parents[1]

\* the same while no commit has failed after storing its Commit object: every
\* Commit stored is the one the ref and the state file name
C36_ConsistentUntilLateFailure ==
    (op.kind = "none" /\ commit_log # <<>>
       /\ wd_state_file # NoStateFile
       /\ wd_state_file.parents = <<ObjectHash(commit_log[Len(commit_log)])>>)
    => /\ wd_parents = wd_state_file.parents
       /\ wd_branch # NoBranch => branch_ref = wd_parents[1]

\* a commit has ended with its state flushed
C36_CommitFlushed ==
    /\ op.kind = "none" /\ Len(commit_log) = 2
    /\ wd_state_file # NoStateFile
    /\ wd_state_file.parents = <<ObjectHash(commit_log[2])>>

\* the cache check of every path that exists, when it answers Cached with a
\* hash, is about a regular file whose bytes are those of the hash's object
CacheCoherent ==
    \A p \in TPaths :
       LET status == HashCacheCheck(t_cache, p, StatsOf(t_fs[p])) IN
       (t_fs[p].kind # "absent" /\ status.status = "Cached")
       => /\ t_fs[p].kind = "file"
          /\ t_fs[p].content = IndexBytes(status.hash)

\* C37: after any sequence of hash_file and extract_object calls of the
\* engine, successful or failed (an extract that fails after the destination
\* was truncated because a chunk object is missing included), with no other
\* program writing, whenever the cache check of a path returns Cached{h} the
\* path is a regular file whose content is exactly the content of object h.
C37_CacheCoherent == CacheCoherent

\* C37 while no extract has failed after it opened the destination
C37_CoherentWithoutFailedCopy ==
    (\A o \in ExtractObjects : o \in t_store) => CacheCoherent

\* an extract has failed at a missing chunk, leaving the bytes written before
C37_FailedCopyReached ==
    /\ t_phase = "file_extracted" /\ ~t_ok
    /\ t_err.kind = "ObjectNotFound"
    /\ t_fs[DestRoot] = FileNode(<<0, 1>>, WriteTime)

\* C38: flushing the stat caches, explicitly or on drop, succeeds after any
\* sequence of hash and extract operations: no directory cache with unwritten
\* changes is left for a directory that an extract has removed or replaced by
\* a file, so the flush in the drop of HashCacheFile never fails or panics.
C38_FlushNeverFails == fl_result.done => fl_result.ok

\* C38 for ObjectFsTransfer, which removes no directory, and for FsTransfer
\* while X is not a directory with a file hashed in it
C38_FlushOkWhileDirectoriesStay ==
    (fl_result.done /\ (t_engine = "ObjectFsTransfer" \/ t_fs[DestRoot].kind = "dir"))
    => fl_result.ok

\* caches with unwritten changes were dropped and written
C38_ChangedCachesFlushed ==
    /\ fl_result.done /\ fl_result.ok
    /\ t_phase = "file_extracted"
    /\ \E p \in TPaths : fl_on_disk[p] # NoEntry /\ ParentDir(p) = DestRoot

\* the latest hash_file inserted an entry, the file was written between its
\* open and its insert and not since, and its size or modification time is
\* not what the open read
RacedAndChanged ==
    /\ rc_pc = "inserted" /\ rc_raced /\ ~rc_since
    /\ StatsOf(rc_file) # rc_stats

\* C39: hash_file caches the stats read when the file was opened, before its
\* content is read: when another process has changed the file's size or mtime
\* while hash_file was reading it, the entry written afterwards carries the
\* earlier stats, and the next cache check of the file returns Modified, never
\* Cached with a hash of content the file no longer has.
C39_RacedEntryReadsModified ==
    RacedAndChanged
    => /\ rc_cache[RaceFile].filestats = rc_stats
       /\ HashCacheCheck(rc_cache, RaceFile, StatsOf(rc_file)).status = "Modified"

\* such a race in which the hash returned is of content the file does not have
C39_Witness ==
    /\ RacedAndChanged
    /\ rc_cache[RaceFile].hash # LastHash(ReadFileObjects(rc_file.content))

\* a race in which the bytes read were those of neither the old nor the new file
C39_WitnessTornRead ==
    /\ RacedAndChanged
    /\ rc_read # rc_file.content
    /\ Len(rc_read) # rc_stats.size

\* the paths, from a PartialTree down, of its UnhashedFile leaves at any depth
RECURSIVE LeafPaths(_)
LeafPaths(partial) ==
    UNION {IF partial[n].kind = "UnhashedFile" THEN {<<n>>}
           ELSE IF partial[n].kind = "Dir"
           THEN {<<n>> \o q : q \in LeafPaths(partial[n].partial)}
           ELSE {} : n \in DOMAIN partial}
RECURSIVE SizeAt(_, _)
SizeAt(partial, path) ==
    IF Len(path) = 1 THEN partial[path[1]].size
    ELSE SizeAt(partial[path[1]].partial, Tail(path))
RECURSIVE SumLeafSizes(_, _)
SumLeafSizes(partial, paths) ==
    IF paths = {} THEN 0
    ELSE LET p == CHOOSE q \in paths : TRUE IN
         SizeAt(partial, p) + SumLeafSizes(partial, paths \ {p})
HashedChildren(partial) == {n \in DOMAIN partial : partial[n].kind = "Hashed"}

\* C40: for every PartialTree, is_complete() is true exactly when every child
\* is Hashed (a Dir child makes it incomplete even when nothing below it needs
\* hashing); unhashed_size() is the sum of the sizes of all UnhashedFile leaves
\* at any depth; tree() contains exactly the Hashed children; inserting an
\* empty Dir is a no-op; and inserting a hash under an existing name replaces
\* an UnhashedFile or Dir entry, so that after every unhashed child has been
\* given a hash is_complete() holds and tree() contains every child.
C40_PartialTree ==
    /\ IsComplete(pt_partial) <=> (HashedChildren(pt_partial) = DOMAIN pt_partial)
    /\ PartialTreeUnhashedSize(pt_partial)
          = SumLeafSizes(pt_partial, LeafPaths(pt_partial))
    /\ PartialTreeTree(pt_partial).entries
          = {[name |-> n, hash |-> pt_partial[n].hash] : n \in HashedChildren(pt_partial)}
    /\ (pt_last.op = "insert" /\ pt_last.st.kind = "Dir"
           /\ DOMAIN pt_last.st.partial = {})
       => pt_partial = pt_last.before
    /\ (pt_last.op = "insert" /\ pt_last.st.kind = "Hashed")
       => /\ DOMAIN pt_partial = DOMAIN pt_last.before \cup {pt_last.name}
          /\ pt_partial[pt_last.name] = pt_last.st
          /\ \A n \in DOMAIN pt_last.before :
                n # pt_last.name => pt_partial[n] = pt_last.before[n]
    /\ pt_last.op = "hash_children"
       => /\ IsComplete(pt_partial)
          /\ DOMAIN pt_partial = DOMAIN pt_last.before
          /\ {e.name : e \in PartialTreeTree(pt_partial).entries} = DOMAIN pt_partial
          /\ \A n \in HashedChildren(pt_last.before) :
                pt_partial[n] = pt_last.before[n]

\* a PartialTree with a Hashed child, an UnhashedFile and a Dir with an
\* UnhashedFile below it has been completed
C40_Witness ==
    /\ pt_last.op = "hash_children"
    /\ HashedChildren(pt_last.before) # {}
    /\ \E n, m \in DOMAIN pt_last.before :
          /\ pt_last.before[n].kind = "UnhashedFile"
          /\ pt_last.before[m].kind = "Dir"
          /\ PartialTreeUnhashedSize(pt_last.before[m].partial) > 0
    /\ PartialTreeUnhashedSize(pt_last.before) > PartialTreeUnhashedSize(pt_partial)

\* a Dir child with nothing to hash below it: unhashed_size() is 0 and the
\* PartialTree is not complete
C40_WitnessZeroUnhashed ==
    /\ \E n \in DOMAIN pt_partial : pt_partial[n].kind = "Dir"
    /\ PartialTreeUnhashedSize(pt_partial) = 0
    /\ ~IsComplete(pt_partial)

\* an empty Dir was inserted under a name that had an entry
C40_WitnessEmptyDir ==
    /\ pt_last.op = "insert" /\ pt_last.st.kind = "Dir"
    /\ DOMAIN pt_last.st.partial = {}
    /\ pt_last.name \in DOMAIN pt_last.before

\* a hash was inserted under the name of a Dir
C40_WitnessReplaced ==
    /\ pt_last.op = "insert" /\ pt_last.st.kind = "Hashed"
    /\ pt_last.name \in DOMAIN pt_last.before
    /\ pt_last.before[pt_last.name].kind = "Dir"

====
